---- MODULE Spec2Model ----
(***************************************************************************)
(* A model of clippyb's durable download queue (queue/persistent_queue.rs, *)
(* queue/queue_item.rs), its background processor                          *)
(* (queue/queue_processor.rs, utils/smart_limiter.rs) and the multi-round  *)
(* search coordinator (agents/rig_coordinator_v2.rs).                      *)
(***************************************************************************)
EXTENDS Integers, Sequences, FiniteSets, Bags, TLC

\* ------------------------------------------------------------------ bounds
\* Queue items ever created (each gets a fresh id).
MaxItems == 2
\* Queue items created while the processor runs.
MaxProcItems == 1
\* Processor tasks alive at the same time.
MaxTasks == 2
\* Events of the environment in one run: restarts after a crash, I/O errors
\* of save() and retry_failed calls of the operator.
MaxEvents == 1
\* Permits of the limiter (num_cpus::get() of the machine the program runs on):
\* fewer than the tasks there can be, so that tasks wait for one.
Permits == MaxTasks - 1

\* ------------------------------------------------------------------ values
\* Option<T>: None is the empty sequence, Some(x) the one-element sequence.
None == <<>>
Some(x) == <<x>>
IsSome(o) == Len(o) = 1

QueueStatus == {"Pending", "InProgress", "Completed", "Failed", "Skipped"}

\* Error texts of the resolution+fetch collaborator, as sequences of words.
ErrAlreadyExists == <<"File", "already", "exists">>
ErrDuplicate == <<"duplicate", "track">>
ErrNetwork == <<"network", "timeout">>
ErrorMessages == {ErrAlreadyExists, ErrDuplicate, ErrNetwork}

\* str::contains on word sequences.
Contains(msg, pat) ==
    \E i \in 1..(Len(msg) - Len(pat) + 1) : SubSeq(msg, i, i + Len(pat) - 1) = pat

ItemTypes == {"song_name"}
KnownItemTypes ==
    {"spotify_playlist", "spotify_track", "soundcloud_track", "youtube_url", "song_name"}

\* ------------------------------------------------------------------ QueueItem
NewItem(id, url, itemType, t) ==
    [id |-> id, url |-> url, item_type |-> itemType, status |-> "Pending",
     created_at |-> t, started_at |-> None, completed_at |-> None,
     error_message |-> None, retry_count |-> 0, metadata |-> None]

\* Faulty variant of ItemStartProcessing: the start time is not recorded.
ItemStartProcessingNoStamp(item, t) ==
    [item EXCEPT !.status = "InProgress"]

ItemStartProcessing(item, t) ==
    [item EXCEPT !.status = "InProgress", !.started_at = Some(t)]

ItemComplete(item, t) ==
    [item EXCEPT !.status = "Completed", !.completed_at = Some(t)]

ItemFail(item, error, t) ==
    [item EXCEPT !.status = "Failed", !.error_message = Some(error),
                 !.retry_count = @ + 1, !.completed_at = Some(t)]

ItemSkip(item, reason, t) ==
    [item EXCEPT !.status = "Skipped", !.error_message = Some(reason),
                 !.completed_at = Some(t)]

\* Faulty variant of ItemResetForRetry: the retries are counted anew.
ItemResetForRetryZero(item) ==
    [item EXCEPT !.status = "Pending", !.started_at = None,
                 !.completed_at = None, !.error_message = None, !.retry_count = 0]

ItemResetForRetry(item) ==
    [item EXCEPT !.status = "Pending", !.started_at = None,
                 !.completed_at = None, !.error_message = None]

\* ------------------------------------------------------------------ JSON
\* serde_json values: null, a number, a string, or an object (a record of values).
JNull == <<"null">>
JNum(n) == <<"num", n>>
JStr(s) == <<"str", s>>
JObj(o) == <<"obj", o>>
JOptNum(o) == IF IsSome(o) THEN JNum(o[1]) ELSE JNull
JOptStr(o) == IF IsSome(o) THEN JStr(o[1]) ELSE JNull

IsJNum(j) == j[1] = "num"
IsJStr(j) == j[1] = "str"
IsJNull(j) == j[1] = "null"
IsJObj(j) == j[1] = "obj"
ParseOptNum(j) == IF IsJNull(j) THEN None ELSE Some(j[2])
ParseOptStr(j) == IF IsJNull(j) THEN None ELSE Some(j[2])
OptNumOk(j) == IsJNull(j) \/ IsJNum(j)
OptStrOk(j) == IsJNull(j) \/ IsJStr(j)

\* #[derive(Serialize)] of QueueItemMetadata.
MetadataToJson(m) ==
    [title |-> JOptStr(m.title), artist |-> JOptStr(m.artist),
     playlist_name |-> JOptStr(m.playlist_name),
     total_tracks |-> JOptNum(m.total_tracks),
     track_index |-> JOptNum(m.track_index)]

MetadataFromJson(o) ==
    [title |-> ParseOptStr(o.title), artist |-> ParseOptStr(o.artist),
     playlist_name |-> ParseOptStr(o.playlist_name),
     total_tracks |-> ParseOptNum(o.total_tracks),
     track_index |-> ParseOptNum(o.track_index)]

\* #[derive(Serialize)] of QueueItem: a unit enum variant is written as its name.
ItemToJson(item) ==
    [id |-> JStr(item.id), url |-> JStr(item.url),
     item_type |-> JStr(item.item_type), status |-> JStr(item.status),
     created_at |-> JNum(item.created_at),
     started_at |-> JOptNum(item.started_at),
     completed_at |-> JOptNum(item.completed_at),
     error_message |-> JOptStr(item.error_message),
     retry_count |-> JNum(item.retry_count),
     metadata |-> IF IsSome(item.metadata)
                  THEN JObj(MetadataToJson(item.metadata[1])) ELSE JNull]

\* Whether #[derive(Deserialize)] of QueueItem accepts the object.
ItemJsonOk(o) ==
    /\ IsJStr(o.id) /\ IsJStr(o.url) /\ IsJStr(o.item_type)
    /\ IsJStr(o.status) /\ o.status[2] \in QueueStatus
    /\ IsJNum(o.created_at) /\ OptNumOk(o.started_at) /\ OptNumOk(o.completed_at)
    /\ OptStrOk(o.error_message) /\ IsJNum(o.retry_count)
    /\ (IsJNull(o.metadata) \/ IsJObj(o.metadata))

ItemFromJson(o) ==
    [id |-> o.id[2], url |-> o.url[2], item_type |-> o.item_type[2],
     status |-> o.status[2], created_at |-> o.created_at[2],
     started_at |-> ParseOptNum(o.started_at),
     completed_at |-> ParseOptNum(o.completed_at),
     error_message |-> ParseOptStr(o.error_message),
     retry_count |-> o.retry_count[2],
     metadata |-> IF IsJNull(o.metadata) THEN None
                  ELSE Some(MetadataFromJson(o.metadata[2]))]

\* ------------------------------------------------------------------ files
\* A file of the music folder: absent, or a JSON text that is either whole or
\* cut short (written only in part).
NoFile == [exists |-> FALSE, complete |-> FALSE, items |-> <<>>, version |-> 0]

\* serde_json::to_string_pretty(&QueueSnapshot { items, version: 1 }).
SnapshotJson(its) ==
    [exists |-> TRUE, complete |-> TRUE,
     items |-> [i \in 1..Len(its) |-> ItemToJson(its[i])], version |-> 1]

\* The text of a file whose write has begun and has not ended: the file is
\* there and holds no whole document.
PartialFile == [exists |-> TRUE, complete |-> FALSE, items |-> <<>>, version |-> 0]

\* serde_json::from_str::<QueueSnapshot> succeeds.
SnapshotParses(f) ==
    f.complete /\ \A i \in 1..Len(f.items) : ItemJsonOk(f.items[i])

\* load(): one item of the snapshot, an in-progress one reset to pending.
LoadReset(item) ==
    IF item.status = "InProgress"
    THEN [item EXCEPT !.status = "Pending", !.started_at = None]
    ELSE item

\* load(), up to the loop over snapshot.items: the items it builds from the
\* file at the queue path, none for a missing file or one it cannot parse.
LoadItems(f) ==
    IF ~f.exists THEN <<>>
    ELSE IF ~SnapshotParses(f) THEN <<>>
    ELSE [i \in 1..Len(f.items) |-> LoadReset(ItemFromJson(f.items[i]))]

\* `max_concurrent: 3`: the worker tasks start_processing spawns.
max_concurrent == 3

\* MusicDownloader::new: `active_processes: Arc::new(Mutex::new(Vec::new()))`; no
\* process has been sent a kill.
NoDownloads == [active_processes |-> <<>>, killed |-> {}]

\* No sanitizer is called.
LlmIdle == [pc |-> "idle", pre |-> <<>>, json |-> <<>>, post |-> <<>>, ret |-> <<>>]

\* No item is in process_item_async.
SongIdle == [pc |-> "idle"]

\* ------------------------------------------------------------------ state
VARIABLES
    song,       \* one item in process_item_async: where the downloader is, what its
                \* checks of the music folder answer, the fetches made and the result
    llm,        \* a call of one of the sanitizers of LLM responses: the response, which
                \* sanitizer ran and what it returned
    dq,         \* DownloadQueue: queue, history, download_history.json, its worker
                \* tasks; history: the downloads tried for each task
    yt_dlp,     \* MusicDownloader.active_processes, and the yt-dlp processes sent a kill
    items,      \* PersistentQueue.items: the in-memory VecDeque<QueueItem>
    file,       \* the file at file_path
    tmp,        \* the file at file_path.with_extension("tmp")
    saver,      \* who holds save_mutex (and the read lock of items), and where in save()
    api,        \* the callers of the queue's public operations
    tasks,      \* the bag of tasks spawned by QueueProcessor::start_processing (each
                \* its position, its clone of the item and its result), but the one in save()
    permits,    \* SmartLimiter.semaphore: the permits available
    nextId,     \* the next fresh item id (Uuid::new_v4)
    events,     \* restarts, I/O errors and retry_failed calls so far
    acked,      \* history: ids whose enqueue / enqueue_multiple returned Ok
    removed,    \* history: ids removed by dequeue or clear_completed
    invoked,    \* history: the ids the collaborator was called for since their last reset
    fileSrc,    \* history: the items the save that produced `file` had read
    panicked,   \* the process panicked in PersistentQueue::new and is not running
    coord,      \* ExtractorBasedCoordinator::search_for_song: where it is, its
                \* SearchContext and what it returned
    search,     \* YouTubeSearchTool::search_multiple: where it is, its spawned
                \* tasks, the permits of its limiter and what it returned
    analyzer    \* ResultExtractor::process: the results of the last iteration,
                \* what the extractor answered and what process returned

queueVars == <<items, file, tmp, saver, api, tasks, permits, nextId, events,
               acked, removed, invoked, fileSrc, panicked, yt_dlp, dq, llm, song>>

vars == <<items, file, tmp, saver, api, tasks, permits, nextId, events,
          acked, removed, invoked, fileSrc, panicked, coord, search, analyzer,
          yt_dlp, dq, llm, song>>

\* ------------------------------------------------------------------ coordinator values
\* ExtractorBasedCoordinator::new: max_iterations: 3.
max_iterations == 3

\* Confidences are counted in tenths: 5 is the 0.5 of
\* `analysis.confidence > 0.5`.
ConfidenceThreshold == 5

\* Most results one round of searches finds.
MaxResults == 1

\* Confidences the analysis reports (tenths): the f64 of the ResultAnalysis is
\* whatever the model answered, so also below 0.0 and above 1.0.
Confidences == {-2, 3, 5, 9, 12}

\* The results of round k when the searches found n: told apart by round and rank.
Found(k, n) == [i \in 1..n |-> [round |-> k, rank |-> i - 1]]

\* search_for_song is called: an empty SearchContext, the first iteration ahead.
CoordStart ==
    [pc |-> "plan", iteration |-> 0, queries |-> <<>>, iterations |-> <<>>, ret |-> None]

\* No search_multiple call and no ResultExtractor::process call is under way.
SearchIdle == [pc |-> "idle", tasks |-> <<>>, permits |-> 0, ret |-> None]
AnalysisIdle == [pc |-> "idle", results |-> <<>>, out |-> None, ret |-> None]

\* Processes that call save(): the processor's tasks and the threads that call
\* the queue's public operations.
NoProc == 0
TaskProc == 1
Clients == {101, 102}
Operator == 101
Other == 102
ItemIds == 1..MaxItems

\* SystemTime::now() in seconds: a run happens within one second.
Now == 1

\* No call of an operation of the DownloadQueue is under way.
DqIdleCall == [op |-> "none", pc |-> "idle"]

\* DownloadQueue::new without a download_history.json: nothing queued, an empty
\* history (tasks: by id; cleared: the ids clear_completed took out of it), no
\* active download, workers that look for a task, the three mutexes free
\* (NoProc) and no call under way.
DownloadQueueNew ==
    [queue |-> <<>>, tasks |-> <<>>, completed_downloads |-> {}, file |-> <<>>,
     workers |-> [w \in 1..max_concurrent |-> [pc |-> "idle", task |-> <<>>]],
     attempts |-> <<>>, retries |-> 0,
     active_downloads |-> {}, cleared |-> {},
     locks |-> [queue |-> NoProc, active_downloads |-> NoProc, history |-> NoProc],
     calls |-> [c \in Clients |-> DqIdleCall]]

NoTask == [pc |-> "none", item |-> NewItem(0, "", "", 0), result |-> None]
IdleSaver == [holder |-> NoProc, pc |-> "idle", task |-> NoTask]
\* A caller of the queue's operations: where it is (idle, or before the save()
\* of its operation), the operation, the ids it enqueues, the item given to
\* update_item, the count the operation returns (removed_count, retry_count),
\* what the operation returned, and as history the item of the update_item
\* call that returned Ok just before this call and the calls made so far.
IdleApi ==
    [pc |-> "idle", op |-> "none", ids |-> {}, arg |-> None, count |-> 0,
     ret |-> None, prev |-> None, calls |-> 0]

\* The caller a has called op and is about to call save().
ApiCall(a, op, ids, arg, count) ==
    [pc |-> "save", op |-> op, ids |-> ids, arg |-> arg, count |-> count, ret |-> None,
     prev |-> IF a.op = "update_item" /\ IsSome(a.ret) /\ a.ret[1].ok THEN a.arg ELSE None,
     calls |-> a.calls + 1]

\* The operation of caller a returns Ok (with its count) or the error of save().
ApiReturn(a, ok) ==
    [a EXCEPT !.pc = "idle", !.ids = {},
              !.ret = Some([ok |-> ok, count |-> IF ok THEN a.count ELSE 0, item |-> None])]

IdsOf(its) == {its[i].id : i \in 1..Len(its)}

Init ==
    /\ items = <<>>
    /\ file = NoFile
    /\ tmp = NoFile
    /\ saver = IdleSaver
    /\ api = [c \in Clients |-> IdleApi]
    /\ tasks = EmptyBag
    /\ permits = Permits
    /\ nextId = 1
    /\ events = 0
    /\ acked = {}
    /\ removed = {}
    /\ invoked = {}
    /\ fileSrc = <<>>
    /\ panicked = FALSE /\ yt_dlp = NoDownloads /\ dq = DownloadQueueNew /\ song = SongIdle /\ llm = LlmIdle
    /\ coord = CoordStart
    /\ search = SearchIdle
    /\ analyzer = AnalysisIdle

\* A write guard of `items` is granted only while no save() holds the read
\* guard (and to a process that runs).
CanWrite == ~panicked /\ saver.holder = NoProc

\* ------------------------------------------------------------------ PersistentQueue
IsPending(it) == it.status = "Pending"
IsFailed(it) == it.status = "Failed"
NotCompletedOrSkipped(it) == it.status \notin {"Completed", "Skipped"}

\* items.iter().position(|item| item.id == id): the first index, 0 for None.
Position(its, id) ==
    IF \E i \in 1..Len(its) : its[i].id = id
    THEN CHOOSE i \in 1..Len(its) :
            its[i].id = id /\ \A j \in 1..(i - 1) : its[j].id # id
    ELSE 0

\* Faulty variant of UpdateItem: an item whose id is not in the queue is pushed.
UpdateItemOrPush(its, updated) ==
    LET pos == Position(its, updated.id)
    IN  IF pos # 0 THEN [its EXCEPT ![pos] = updated] ELSE Append(its, updated)

\* Faulty variant of UpdateItem: every update of an item counts as a retry.
UpdateItemCounting(its, updated) ==
    LET pos == Position(its, updated.id)
    IN  IF pos # 0
        THEN [its EXCEPT ![pos] = [updated EXCEPT !.retry_count = its[pos].retry_count + 1]]
        ELSE its

\* update_item, the part under the write guard.
UpdateItem(its, updated) ==
    LET pos == Position(its, updated.id)
    IN  IF pos # 0 THEN [its EXCEPT ![pos] = updated] ELSE its

\* clear_completed: items.retain(..).
ClearCompletedItems(its) == SelectSeq(its, NotCompletedOrSkipped)

\* retry_failed: reset_for_retry on every failed item.
RetryFailedItems(its) ==
    [i \in 1..Len(its) |-> IF IsFailed(its[i]) THEN ItemResetForRetry(its[i]) ELSE its[i]]

\* get_pending_items: clones of the items whose status is Pending, in queue order.
GetPendingItems(its) == SelectSeq(its, IsPending)

\* enqueue(item): push_back under the write guard; save() follows.
Enqueue(c) ==
    /\ api[c].pc = "idle" /\ CanWrite /\ nextId <= MaxItems
    /\ \E ty \in ItemTypes :
         items' = Append(items, NewItem(nextId, "song", ty, Now))
    /\ api' = [api EXCEPT ![c] = ApiCall(api[c], "enqueue", {nextId}, None, 0)]
    /\ nextId' = nextId + 1
    /\ UNCHANGED <<song, llm, dq, yt_dlp, search, analyzer, coord, panicked, file, tmp, saver, tasks, permits, events, acked, removed,
                   invoked, fileSrc>>

\* enqueue_multiple(items) with n new items: all are pushed, then save() follows.
EnqueueBatch(c, n) ==
    /\ api[c].pc = "idle" /\ CanWrite
    /\ \E ty \in ItemTypes :
         /\ items' = items \o
               [i \in 1..n |-> NewItem(nextId + i - 1, "song", ty, Now)]
         /\ api' = [api EXCEPT ![c] = ApiCall(api[c], "enqueue_multiple",
                                               nextId..(nextId + n - 1), None, 0)]
         /\ nextId' = nextId + n
    /\ UNCHANGED <<song, llm, dq, yt_dlp, search, analyzer, coord, panicked, file, tmp, saver, tasks, permits, events, acked, removed,
                   invoked, fileSrc>>

EnqueueMultiple(c) == \E n \in 1..(MaxItems + 1 - nextId) : EnqueueBatch(c, n)

\* dequeue(): items.pop_front() under the write guard, returned as it is (None
\* for an empty queue); save() is not called.
Dequeue(c) ==
    /\ api[c].pc = "idle" /\ CanWrite
    /\ items' = IF items = <<>> THEN items ELSE Tail(items)
    /\ removed' = IF items = <<>> THEN removed ELSE removed \cup {Head(items).id}
    /\ api' = [api EXCEPT ![c] =
                 [ApiCall(api[c], "dequeue", {}, None, 0) EXCEPT
                    !.pc = "idle",
                    !.ret = Some([ok |-> TRUE, count |-> 0,
                                  item |-> IF items = <<>> THEN None ELSE Some(Head(items))])]]
    /\ UNCHANGED <<song, llm, dq, yt_dlp, search, analyzer, coord, panicked, file, tmp, saver, tasks, permits, nextId, events, acked,
                   invoked, fileSrc>>

\* The values a caller passes to update_item: a clone of a queue item changed by
\* one of QueueItem's methods, in the order the processor calls them.
Updates(it) ==
    IF it.status = "Pending" THEN {ItemStartProcessing(it, Now)}
    ELSE IF it.status = "InProgress"
    THEN {ItemComplete(it, Now), ItemFail(it, ErrNetwork, Now),
          ItemSkip(it, <<"Duplicate:">> \o ErrDuplicate, Now)}
    ELSE {}

\* update_item(updated_item), up to save().
UpdateItemWith(c, updated_item) ==
    /\ api[c].pc = "idle" /\ CanWrite
    /\ items' = UpdateItem(items, updated_item)
    /\ api' = [api EXCEPT ![c] = ApiCall(api[c], "update_item", {}, Some(updated_item), 0)]
    /\ UNCHANGED <<song, llm, dq, yt_dlp, search, analyzer, coord, panicked, file, tmp, saver, tasks, permits, nextId, events, acked,
                   removed, invoked, fileSrc>>

\* update_item as the processor calls it: with the next value of a queue item.
UpdateItemCall(c) ==
    \E i \in 1..Len(items) : \E upd \in Updates(items[i]) : UpdateItemWith(c, upd)

\* An operation that calls save() only `if count > 0`: the caller is about to
\* save, or has returned Ok(0).
ApiCallCounted(a, op, count) ==
    IF count > 0 THEN ApiCall(a, op, {}, None, count)
    ELSE ApiReturn(ApiCall(a, op, {}, None, 0), TRUE)

\* clear_completed(): save() only when something was removed.
ClearCompleted(c) ==
    /\ api[c].pc = "idle" /\ CanWrite
    /\ items' = ClearCompletedItems(items)
    /\ removed' = removed \cup (IdsOf(items) \ IdsOf(items'))
    /\ api' = [api EXCEPT ![c] =
                 ApiCallCounted(api[c], "clear_completed", Len(items) - Len(items'))]
    /\ UNCHANGED <<song, llm, dq, yt_dlp, search, analyzer, coord, panicked, file, tmp, saver, tasks, permits, nextId, events, acked,
                   invoked, fileSrc>>

\* retry_failed(): save() only when something was reset.
RetryFailed(c) ==
    /\ api[c].pc = "idle" /\ CanWrite
    /\ events < MaxEvents
    /\ events' = events + 1
    /\ items' = RetryFailedItems(items)
    /\ invoked' = invoked \ {items[i].id : i \in {j \in 1..Len(items) : IsFailed(items[j])}}
    /\ api' = [api EXCEPT ![c] =
                 ApiCallCounted(api[c], "retry_failed",
                                Cardinality({j \in 1..Len(items) : IsFailed(items[j])}))]
    /\ UNCHANGED <<song, llm, dq, yt_dlp, search, analyzer, coord, panicked, file, tmp, saver, tasks, permits, nextId, acked,
                   removed, fileSrc>>

\* ------------------------------------------------------------------ save()
AddTask(B, r) == B (+) SetToBag({r})
DelTask(B, r) == B (-) SetToBag({r})

\* Faulty variant of Return: a task goes on to process_item_async whether its
\* InProgress update returned Ok or Err.
ReturnIgnoringErr(ok) ==
    IF saver.holder \in Clients
    THEN /\ api' = [api EXCEPT ![saver.holder] = ApiReturn(api[saver.holder], ok)]
         /\ acked' = IF ok /\ api[saver.holder].op \in {"enqueue", "enqueue_multiple"}
                     THEN acked \cup api[saver.holder].ids ELSE acked
         /\ UNCHANGED <<song, llm, dq, yt_dlp, search, analyzer, coord, panicked, tasks, permits, invoked>>
    ELSE IF saver.task.pc = "save1"
    THEN /\ tasks' = AddTask(tasks, [saver.task EXCEPT !.pc = "running"])
         /\ invoked' = invoked \cup {saver.task.item.id}
         /\ UNCHANGED <<song, llm, dq, yt_dlp, search, analyzer, coord, panicked, api, acked, permits>>
    ELSE /\ permits' = permits + 1
         /\ UNCHANGED <<song, llm, dq, yt_dlp, search, analyzer, coord, panicked, api, acked, invoked, tasks>>

\* Faulty variant of Return: a task that ends keeps its permit.
ReturnKeepingPermit(ok) ==
    IF saver.holder \in Clients
    THEN /\ api' = [api EXCEPT ![saver.holder] = ApiReturn(api[saver.holder], ok)]
         /\ acked' = IF ok /\ api[saver.holder].op \in {"enqueue", "enqueue_multiple"}
                     THEN acked \cup api[saver.holder].ids ELSE acked
         /\ UNCHANGED <<song, llm, dq, yt_dlp, search, analyzer, coord, panicked, tasks, permits, invoked>>
    ELSE IF saver.task.pc = "save1" /\ ok
    THEN /\ tasks' = AddTask(tasks, [saver.task EXCEPT !.pc = "running"])
         /\ invoked' = invoked \cup {saver.task.item.id}
         /\ UNCHANGED <<song, llm, dq, yt_dlp, search, analyzer, coord, panicked, api, acked, permits>>
    ELSE UNCHANGED <<song, llm, dq, yt_dlp, search, analyzer, coord, panicked, api, acked, invoked, tasks,
                     permits>>

\* save() returns to its caller with Ok (ok) or Err: the rest of the operation.
\*  - a caller's operation returns; an enqueue that got Ok is acknowledged;
\*  - a task whose InProgress update got Ok calls process_item_async next;
\*    on Err it returns (its permit is dropped);
\*  - a task whose final update returned ends either way (its permit is dropped).
Return(ok) ==
    IF saver.holder \in Clients
    THEN /\ api' = [api EXCEPT ![saver.holder] = ApiReturn(api[saver.holder], ok)]
         /\ acked' = IF ok /\ api[saver.holder].op \in {"enqueue", "enqueue_multiple"}
                     THEN acked \cup api[saver.holder].ids ELSE acked
         /\ UNCHANGED <<song, llm, dq, yt_dlp, search, analyzer, coord, panicked, tasks, permits, invoked>>
    ELSE IF saver.task.pc = "save1" /\ ok
    THEN /\ tasks' = AddTask(tasks, [saver.task EXCEPT !.pc = "running"])
         /\ invoked' = invoked \cup {saver.task.item.id}
         /\ UNCHANGED <<song, llm, dq, yt_dlp, search, analyzer, coord, panicked, api, acked, permits>>
    ELSE /\ permits' = permits + 1
         /\ UNCHANGED <<song, llm, dq, yt_dlp, search, analyzer, coord, panicked, api, acked, invoked, tasks>>

\* Faulty variant of SaveBegin: save() does not wait for save_mutex.
SaveBeginNoLock(c) ==
    /\ api[c].pc = "save" /\ saver.holder # c
    /\ saver' = [holder |-> c, pc |-> "write", task |-> NoTask]
    /\ UNCHANGED <<song, llm, dq, yt_dlp, search, analyzer, coord, panicked, items, file, tmp, api, tasks, permits, nextId, events, acked,
                   removed, invoked, fileSrc>>

\* A caller's save(): save_mutex.lock().await, then items.read().await. Both
\* are held to the end of save(), so `items` cannot change while the snapshot
\* is written.
SaveBegin(c) ==
    /\ saver.holder = NoProc /\ api[c].pc = "save"
    /\ saver' = [holder |-> c, pc |-> "write", task |-> NoTask]
    /\ UNCHANGED <<song, llm, dq, yt_dlp, search, analyzer, coord, panicked, items, file, tmp, api, tasks, permits, nextId, events, acked,
                   removed, invoked, fileSrc>>

\* The same in a task's update_item.
TaskSaveBegin(r) ==
    /\ saver.holder = NoProc /\ r.pc \in {"save1", "save2"}
    /\ saver' = [holder |-> TaskProc, pc |-> "write", task |-> r]
    /\ tasks' = DelTask(tasks, r)
    /\ UNCHANGED <<song, llm, dq, yt_dlp, search, analyzer, coord, panicked, items, file, tmp, api, permits, nextId, events, acked,
                   removed, invoked, fileSrc>>

\* Faulty variant of SaveWritePartial: the snapshot is written over the queue
\* file itself.
SaveWriteInPlace ==
    /\ saver.pc = "write"
    /\ file' = PartialFile
    /\ saver' = [saver EXCEPT !.pc = "writing"]
    /\ UNCHANGED <<song, llm, dq, yt_dlp, search, analyzer, coord, panicked, items, tmp, api, tasks, permits, nextId, events, acked,
                   removed, invoked, fileSrc>>

\* fs::write(&temp_path, json) has created or truncated the temp file and written
\* some of the text.
SaveWritePartial ==
    /\ saver.pc = "write"
    /\ tmp' = PartialFile
    /\ saver' = [saver EXCEPT !.pc = "writing"]
    /\ UNCHANGED <<song, llm, dq, yt_dlp, search, analyzer, coord, panicked, items, file, api, tasks, permits, nextId, events, acked,
                   removed, invoked, fileSrc>>

\* fs::write(&temp_path, json) returns Ok: the whole text is in the temp file.
SaveWriteDone ==
    /\ saver.pc = "writing"
    /\ tmp' = SnapshotJson(items)
    /\ saver' = [saver EXCEPT !.pc = "rename"]
    /\ UNCHANGED <<song, llm, dq, yt_dlp, search, analyzer, coord, panicked, items, file, api, tasks, permits, nextId, events, acked,
                   removed, invoked, fileSrc>>

\* fs::rename(temp_path, &self.file_path) returns Ok; save() returns Ok(()).
SaveRename ==
    /\ saver.pc = "rename"
    /\ file' = tmp
    /\ tmp' = NoFile
    /\ fileSrc' = items
    /\ saver' = IdleSaver
    /\ Return(TRUE)
    /\ UNCHANGED <<song, llm, dq, yt_dlp, search, analyzer, coord, panicked, items, nextId, events, removed>>

\* Faulty variant of SaveFail: the items the failed call had enqueued are taken
\* out of the queue again.
SaveFailRollingBack ==
    /\ saver.pc \in {"write", "writing", "rename"}
    /\ events < MaxEvents
    /\ events' = events + 1
    /\ saver' = IdleSaver
    /\ Return(FALSE)
    /\ items' = IF saver.holder \in Clients
                THEN SelectSeq(items, LAMBDA it : it.id \notin api[saver.holder].ids)
                ELSE items
    /\ UNCHANGED <<song, llm, dq, yt_dlp, search, analyzer, coord, panicked, file, tmp, nextId, removed, fileSrc>>

\* fs::write or fs::rename returns Err: save() returns it, the files stay as
\* they are.
SaveFail ==
    /\ saver.pc \in {"write", "writing", "rename"}
    /\ events < MaxEvents
    /\ events' = events + 1
    /\ saver' = IdleSaver
    /\ Return(FALSE)
    /\ UNCHANGED <<song, llm, dq, yt_dlp, search, analyzer, coord, panicked, items, file, tmp, nextId, removed, fileSrc>>

\* ------------------------------------------------------------------ QueueProcessor
\* The tasks alive: those of the bag and the one in save().
LiveTasks == BagCardinality(tasks) + (IF saver.holder = TaskProc THEN 1 ELSE 0)

\* The tasks between `let _permit = limiter_clone.acquire().await` and the end
\* of the task, where _permit is dropped.
PermitHolders ==
    LET held == {r \in BagToSet(tasks) : r.pc \in {"start", "save1", "running", "save2"}}
    IN  BagCardinality([r \in held |-> CopiesIn(r, tasks)])
        + (IF saver.holder = TaskProc THEN 1 ELSE 0)

\* Faulty variant of ApplyResult: every error counts as a failure.
ApplyResultNoSkip(item, r, t) ==
    IF r.ok THEN ItemComplete(item, t) ELSE ItemFail(item, r.err, t)

\* start_processing, `match result`: the task's item after process_item_async
\* returned r.
ApplyResult(item, r, t) ==
    IF r.ok THEN ItemComplete(item, t)
    ELSE IF Contains(r.err, <<"already", "exists">>) \/ Contains(r.err, <<"duplicate">>)
         THEN ItemSkip(item, <<"Duplicate:">> \o r.err, t)
         ELSE ItemFail(item, r.err, t)

\* process_item_async: what the downloader answered, or the error for an item
\* type it does not know.
ProcessItemAsync(item, answer) ==
    IF item.item_type \in KnownItemTypes THEN answer
    ELSE [ok |-> FALSE, err |-> <<"Unknown", "item", "type">>]

Answers == {[ok |-> TRUE, err |-> <<>>]} \cup {[ok |-> FALSE, err |-> e] : e \in ErrorMessages}

\* The tasks spawned for a batch: one per pending item, holding its clone.
RECURSIVE Spawned(_)
Spawned(pending) ==
    IF pending = <<>> THEN EmptyBag
    ELSE AddTask(Spawned(Tail(pending)),
                 [pc |-> "acquire", item |-> Head(pending), result |-> None])

\* One turn of the loop of start_processing with pending items: a task is
\* spawned for each of them.
ProcFetch ==
    LET pending == GetPendingItems(items)
    IN  /\ ~panicked
        /\ pending # <<>>
        /\ LiveTasks + Len(pending) <= MaxTasks
        /\ tasks' = tasks (+) Spawned(pending)
        /\ UNCHANGED <<song, llm, dq, yt_dlp, search, analyzer, coord, panicked, items, file, tmp, saver, api, permits, nextId, events,
                       acked, removed, invoked, fileSrc>>

\* Faulty variant of TaskAcquire: the task goes on without taking a permit.
TaskAcquireNoPermit(r) ==
    /\ r.pc = "acquire"
    /\ tasks' = AddTask(DelTask(tasks, r), [r EXCEPT !.pc = "start"])
    /\ UNCHANGED <<song, llm, dq, yt_dlp, search, analyzer, coord, panicked, items, file, tmp, saver, api, permits, nextId, events, acked,
                   removed, invoked, fileSrc>>

\* limiter_clone.acquire().await: every clone shares the one semaphore.
TaskAcquire(r) ==
    /\ r.pc = "acquire"
    /\ permits > 0
    /\ permits' = permits - 1
    /\ tasks' = AddTask(DelTask(tasks, r), [r EXCEPT !.pc = "start"])
    /\ UNCHANGED <<song, llm, dq, yt_dlp, search, analyzer, coord, panicked, items, file, tmp, saver, api, nextId, events, acked,
                   removed, invoked, fileSrc>>

\* item.start_processing(); queue_clone.update_item(item.clone()), up to save().
TaskStart(r) ==
    /\ r.pc = "start" /\ CanWrite
    /\ LET it == ItemStartProcessing(r.item, Now)
       IN  /\ tasks' = AddTask(DelTask(tasks, r), [r EXCEPT !.pc = "save1", !.item = it])
           /\ items' = UpdateItem(items, it)
    /\ UNCHANGED <<song, llm, dq, yt_dlp, search, analyzer, coord, panicked, file, tmp, saver, api, permits, nextId, events, acked,
                   removed, invoked, fileSrc>>

\* process_item_async returns; the item is completed, skipped or failed and
\* update_item(item) is called, up to save().
TaskResult(r) ==
    /\ r.pc = "running" /\ CanWrite
    /\ \E answer \in Answers :
         LET result == ProcessItemAsync(r.item, answer)
             it == ApplyResult(r.item, result, Now)
         IN  /\ tasks' = AddTask(DelTask(tasks, r),
                                 [pc |-> "save2", item |-> it, result |-> Some(result)])
             /\ items' = UpdateItem(items, it)
    /\ UNCHANGED <<song, llm, dq, yt_dlp, search, analyzer, coord, panicked, file, tmp, saver, api, permits, nextId, events, acked,
                   removed, invoked, fileSrc>>

\* ------------------------------------------------------------------ restart
\* load(), after the items are built: tokio::runtime::Handle::current() and
\* rt.block_on(..). PersistentQueue::new is called in the async fn
\* MusicDownloader::new, which #[tokio::main] main awaits, and block_on panics
\* on a thread that is driving asynchronous tasks ("Cannot start a runtime
\* from within a runtime"). load() gets this far when the file exists and parses.
LoadPanics(f) == f.exists /\ SnapshotParses(f)

\* The process dies at any point and is started again: every task and every
\* call in flight is gone, the files are as they were, and PersistentQueue::new
\* makes an empty queue and calls load(). load() returns Ok at once without a
\* file and Err for a file it cannot parse ("starting fresh"): the queue stays
\* empty. With a file that parses it panics before it stores the items, and
\* the process is gone again, as it is at every later start.
CrashRestart ==
    /\ ~panicked
    /\ events < MaxEvents
    /\ events' = events + 1
    /\ items' = <<>>
    /\ panicked' = LoadPanics(file)
    /\ saver' = IdleSaver
    /\ api' = [c \in Clients |-> IdleApi]
    /\ tasks' = EmptyBag
    /\ permits' = Permits
    /\ UNCHANGED <<song, llm, dq, yt_dlp, search, analyzer, coord, file, tmp, nextId, acked, removed, invoked, fileSrc>>

SomeFailed == \E i \in 1..Len(items) : IsFailed(items[i])
SomeCompleted == \E i \in 1..Len(items) : ~NotCompletedOrSkipped(items[i])

\* The queue under one caller of its public operations, each called when it
\* has something to do.
NextQueue ==
    \/ Enqueue(Operator)
    \/ EnqueueMultiple(Operator)
    \/ (items # <<>> /\ Dequeue(Operator))
    \/ UpdateItemCall(Operator)
    \/ (SomeCompleted /\ ClearCompleted(Operator))
    \/ (SomeFailed /\ RetryFailed(Operator))
    \/ SaveBegin(Operator)
    \/ SaveWritePartial
    \/ SaveWriteDone
    \/ SaveRename
    \/ SaveFail
    \/ CrashRestart

SpecQueue == Init /\ [][NextQueue]_vars

\* The queue under the processor and an operator: the clipboard handler
\* enqueues one batch (enqueue_multiple), failed items are retried.
Next ==
    \/ (nextId = 1 /\ \E n \in 1..MaxProcItems : EnqueueBatch(Operator, n))
    \/ (SomeFailed /\ RetryFailed(Operator))
    \/ SaveBegin(Operator)
    \/ \E r \in BagToSet(tasks) : TaskSaveBegin(r)
    \/ SaveWritePartial
    \/ SaveWriteDone
    \/ SaveRename
    \/ SaveFail
    \/ ProcFetch
    \/ \E r \in BagToSet(tasks) : TaskAcquire(r)
    \/ \E r \in BagToSet(tasks) : TaskStart(r)
    \/ \E r \in BagToSet(tasks) : TaskResult(r)
    \/ CrashRestart

Spec == Init /\ [][Next]_vars

\* Two callers of enqueue, enqueue_multiple and update_item at any time, and
\* saves that fail.
NextCallers ==
    \/ \E c \in Clients : Enqueue(c)
    \/ \E c \in Clients : EnqueueMultiple(c)
    \/ \E c \in Clients : UpdateItemCall(c)
    \/ \E c \in Clients : SaveBegin(c)
    \/ SaveWritePartial
    \/ SaveWriteDone
    \/ SaveRename
    \/ SaveFail

SpecCallers == Init /\ [][NextCallers]_vars

\* The processor while it runs and every write of the snapshot succeeds: no
\* restart and no error of fs::write or fs::rename.
NextRunning ==
    \/ (nextId = 1 /\ \E n \in 1..MaxProcItems : EnqueueBatch(Operator, n))
    \/ (SomeFailed /\ RetryFailed(Operator))
    \/ SaveBegin(Operator)
    \/ \E r \in BagToSet(tasks) : TaskSaveBegin(r)
    \/ SaveWritePartial
    \/ SaveWriteDone
    \/ SaveRename
    \/ ProcFetch
    \/ \E r \in BagToSet(tasks) : TaskAcquire(r)
    \/ \E r \in BagToSet(tasks) : TaskStart(r)
    \/ \E r \in BagToSet(tasks) : TaskResult(r)

\* The scheduling: the loop of start_processing takes its turns, a save that
\* began goes on, process_item_async returns; the semaphore, save_mutex and the
\* lock of `items` are fair (tokio's are first in, first out), so a task that
\* can take them again and again does take them.
FairRunning ==
    /\ WF_vars(ProcFetch)
    /\ WF_vars(SaveWritePartial \/ SaveWriteDone \/ SaveRename)
    /\ SF_vars(\E r \in BagToSet(tasks) : TaskAcquire(r))
    /\ SF_vars(\E r \in BagToSet(tasks) : TaskStart(r))
    /\ SF_vars(\E r \in BagToSet(tasks) : TaskSaveBegin(r))
    /\ SF_vars(\E r \in BagToSet(tasks) : TaskResult(r))

SpecRunning == Init /\ [][NextRunning]_vars /\ FairRunning

\* ------------------------------------------------------------------ abort of the downloads
\* Process ids the system gives to yt-dlp processes.
Pids == 1..MaxTasks

\* The ids of the yt-dlp processes that run.
LivePids == {r.pid : r \in {t \in BagToSet(tasks) : t.pc = "downloading"}}

\* `processes.retain(|&p| p != pid)`.
Retain(processes, pid) == SelectSeq(processes, LAMBDA p : p # pid)

\* The elements of a Vec.
Elements(v) == {v[i] : i \in 1..Len(v)}

\* "yt-dlp failed: {stderr}" and "Downloaded file not found".
ErrYtDlpFailed == <<"yt-dlp", "failed:">>
ErrFileNotFound == <<"Downloaded", "file", "not", "found">>

\* download_and_tag_song, in the process_item_async of a task: yt-dlp is
\* spawned and its process id pushed to active_processes.
DownloadSpawn(r) ==
    /\ r.pc = "running"
    /\ \E pid \in Pids \ LivePids :
         /\ tasks' = AddTask(DelTask(tasks, r),
                             [pc |-> "downloading", item |-> r.item, result |-> None,
                              pid |-> pid])
         /\ yt_dlp' = [yt_dlp EXCEPT !.active_processes = Append(@, pid)]
    /\ UNCHANGED <<song, llm, dq, search, analyzer, coord, panicked, items, file, tmp, saver, api, permits, nextId,
                   events, acked, removed, invoked, fileSrc>>

\* abort_all_downloads: it returns at once without tracked processes; else
\* `kill -9` (taskkill /F) for each tracked pid, and processes.clear().
AbortAllDownloads ==
    /\ yt_dlp.active_processes # <<>>
    /\ yt_dlp' = [active_processes |-> <<>>,
                  killed |-> yt_dlp.killed \cup Elements(yt_dlp.active_processes)]
    /\ UNCHANGED <<song, llm, dq, search, analyzer, coord, panicked, items, file, tmp, saver, api, tasks, permits,
                   nextId, events, acked, removed, invoked, fileSrc>>

\* child.wait_with_output() returns in the task: a killed process has no
\* success status, another has ended well or not. The pid is taken from
\* active_processes, and download_and_tag_song returns Ok (the file is there
\* and tagged) or its error, which process_item_async returns. The task
\* remembers whether its process was killed.
DownloadExit(r) ==
    /\ r.pc = "downloading"
    /\ \E success \in (IF r.pid \in yt_dlp.killed THEN {FALSE} ELSE BOOLEAN) :
       \E found \in BOOLEAN :
         LET result == IF ~success THEN [ok |-> FALSE, err |-> ErrYtDlpFailed]
                       ELSE IF ~found THEN [ok |-> FALSE, err |-> ErrFileNotFound]
                       ELSE [ok |-> TRUE, err |-> <<>>]
         IN  tasks' = AddTask(DelTask(tasks, r),
                              [pc |-> "exited", item |-> r.item, result |-> Some(result),
                               killed |-> r.pid \in yt_dlp.killed])
    /\ yt_dlp' = [active_processes |-> Retain(yt_dlp.active_processes, r.pid),
                  killed |-> yt_dlp.killed \ {r.pid}]
    /\ UNCHANGED <<song, llm, dq, search, analyzer, coord, panicked, items, file, tmp, saver, api, permits, nextId,
                   events, acked, removed, invoked, fileSrc>>

\* start_processing, `match result` after process_item_async returned what the
\* download gave, and update_item(item), up to save().
DownloadResult(r) ==
    /\ r.pc = "exited" /\ CanWrite
    /\ LET it == ApplyResult(r.item, r.result[1], Now)
       IN  /\ tasks' = AddTask(DelTask(tasks, r),
                               [pc |-> "save2", item |-> it, result |-> r.result])
           /\ items' = UpdateItem(items, it)
    /\ UNCHANGED <<song, llm, dq, yt_dlp, search, analyzer, coord, panicked, file, tmp, saver, api, permits, nextId,
                   events, acked, removed, invoked, fileSrc>>

\* The queue under the processor, whose tasks download with yt-dlp, and an
\* operator who may abort the downloads at any time.
NextAbort ==
    \/ (nextId = 1 /\ \E n \in 1..MaxProcItems : EnqueueBatch(Operator, n))
    \/ SaveBegin(Operator)
    \/ \E r \in BagToSet(tasks) : TaskSaveBegin(r)
    \/ SaveWritePartial
    \/ SaveWriteDone
    \/ SaveRename
    \/ SaveFail
    \/ ProcFetch
    \/ \E r \in BagToSet(tasks) : TaskAcquire(r)
    \/ \E r \in BagToSet(tasks) : TaskStart(r)
    \/ \E r \in BagToSet(tasks) : TaskResult(r)
    \/ \E r \in BagToSet(tasks) : DownloadSpawn(r)
    \/ AbortAllDownloads
    \/ \E r \in BagToSet(tasks) : DownloadExit(r)
    \/ \E r \in BagToSet(tasks) : DownloadResult(r)

SpecAbort == Init /\ [][NextAbort]_vars

\* ------------------------------------------------------------------ DownloadQueue
\* `max_retries: 3`.
max_retries == 3

\* Tasks added to the DownloadQueue.
MaxDownloadTasks == 1

\* retry_failed calls of the operator.
MaxRetryCalls == 1

\* search_result.url of the tasks.
Urls == {"a"}

\* What is not the DownloadQueue.
notDq == <<items, file, tmp, saver, api, tasks, permits, nextId, events, acked, removed,
           invoked, fileSrc, panicked, yt_dlp, coord, search, analyzer, llm, song>>

\* The DownloadTask add_task makes.
DownloadTaskNew(id, url) ==
    [id |-> id, url |-> url, status |-> "Pending", started_at |-> None,
     completed_at |-> None, error |-> None, retry_count |-> 0, output_path |-> None]

\* save_history / save_history_static: the history as it is written to
\* download_history.json (the write is taken to succeed; a failed one leaves
\* the file and changes nothing else).
HistoryJson(d) ==
    <<[tasks |-> [id \in (1..Len(d.tasks)) \ d.cleared |-> d.tasks[id]],
       completed_downloads |-> d.completed_downloads]>>

\* A mutex of the DownloadQueue (queue, active_downloads, history) is free.
DqFree(lock) == dq.locks[lock] = NoProc

\* add_task: "already_downloaded" for a url in completed_downloads; else the
\* new task is inserted in the history, pushed to the queue, and the history
\* saved.
DqAddTask ==
    /\ Len(dq.tasks) < MaxDownloadTasks
    /\ DqFree("history") /\ DqFree("queue")
    /\ \E url \in Urls :
         IF url \in dq.completed_downloads THEN dq' = dq
         ELSE LET task == DownloadTaskNew(Len(dq.tasks) + 1, url)
                  added == [dq EXCEPT !.tasks = Append(@, task), !.queue = Append(@, task),
                                      !.attempts = Append(@, 0)]
              IN  dq' = [added EXCEPT !.file = HistoryJson(added)]
    /\ UNCHANGED notDq

\* A worker of start_processing takes the front task of the queue and marks it
\* Downloading.
WorkerPop(w) ==
    /\ dq.workers[w].pc = "idle" /\ dq.queue # <<>>
    /\ DqFree("queue")
    /\ dq' = [dq EXCEPT !.queue = Tail(@),
                        !.workers[w] =
                           [pc |-> "insert",
                            task |-> <<[Head(dq.queue) EXCEPT !.status = "Downloading",
                                                              !.started_at = Some(Now)]>>]]
    /\ UNCHANGED notDq

\* `active.lock().await.insert(task.id.clone(), task.clone())`, then the
\* download begins.
WorkerInsert(w) ==
    /\ dq.workers[w].pc = "insert"
    /\ DqFree("active_downloads")
    /\ dq' = [dq EXCEPT !.active_downloads = @ \cup {dq.workers[w].task[1].id},
                        !.workers[w].pc = "download"]
    /\ UNCHANGED notDq

\* Faulty variant of MayRetry: a task is also retried at max_retries.
MayRetryAtMax(retry_count) == retry_count <= max_retries

\* `if task.retry_count < max_retries`.
MayRetry(retry_count) == retry_count < max_retries

\* The Err branch up to the status: error, retry_count, Retrying or Failed.
DownloadFailed(task) ==
    LET counted == [task EXCEPT !.error = Some("error"), !.retry_count = @ + 1]
    IN  IF MayRetry(counted.retry_count)
        THEN [counted EXCEPT !.status = "Retrying"]
        ELSE [counted EXCEPT !.status = "Failed", !.completed_at = Some(Now)]

\* The Ok branch: Completed.
DownloadCompleted(task) ==
    [task EXCEPT !.status = "Completed", !.completed_at = Some(Now),
                 !.output_path = Some("downloaded")]

\* downloader.download_from_youtube(url) returns to a worker. Ok: the task is
\* Completed, put in the history with its url in completed_downloads, the
\* history saved, the task taken from active_downloads and sent. Err: the task
\* counts the failure and is pushed to the queue as Retrying, or is Failed; the
\* history is updated in a later step.
WorkerDownload(w) ==
    /\ dq.workers[w].pc = "download"
    /\ LET task == dq.workers[w].task[1]
           tried == [dq EXCEPT !.attempts[task.id] = @ + 1]
       IN  \E ok \in BOOLEAN :
             IF ok
             THEN LET done == DownloadCompleted(task)
                      put == [tried EXCEPT !.tasks[task.id] = done,
                                           !.cleared = @ \ {task.id},
                                           !.completed_downloads = @ \cup {task.url},
                                           !.active_downloads = @ \ {task.id},
                                           !.workers[w] = [pc |-> "idle", task |-> <<>>]]
                  IN  /\ DqFree("history") /\ DqFree("active_downloads")
                      /\ dq' = [put EXCEPT !.file = HistoryJson(put)]
             ELSE LET failed == DownloadFailed(task)
                  IN  /\ failed.status = "Retrying" => DqFree("queue")
                      /\ dq' = [tried EXCEPT
                                  !.queue = IF failed.status = "Retrying"
                                            THEN Append(@, failed) ELSE @,
                                  !.workers[w] = [pc |-> "record", task |-> <<failed>>]]
    /\ UNCHANGED notDq

\* The end of the Err branch: hist.tasks.insert(task.id, task), the task taken
\* from active_downloads and sent.
WorkerRecord(w) ==
    /\ dq.workers[w].pc = "record"
    /\ DqFree("history") /\ DqFree("active_downloads")
    /\ dq' = [dq EXCEPT !.tasks[dq.workers[w].task[1].id] = dq.workers[w].task[1],
                        !.cleared = @ \ {dq.workers[w].task[1].id},
                        !.active_downloads = @ \ {dq.workers[w].task[1].id},
                        !.workers[w] = [pc |-> "idle", task |-> <<>>]]
    /\ UNCHANGED notDq

\* The task of the history as retry_failed leaves it.
DownloadReset(task) ==
    IF task.status = "Failed"
    THEN [task EXCEPT !.status = "Pending", !.retry_count = 0, !.error = None]
    ELSE task

\* retry_failed: every Failed task of the history is reset and a clone pushed
\* to the queue, in the order the HashMap gives them; the history is saved.
DqRetryFailed ==
    /\ dq.retries < MaxRetryCalls
    /\ DqFree("history") /\ DqFree("queue")
    /\ LET failed == {id \in (1..Len(dq.tasks)) \ dq.cleared : dq.tasks[id].status = "Failed"}
           n == Cardinality(failed)
       IN  \E order \in {o \in [1..n -> failed] : \A i, j \in 1..n : o[i] = o[j] => i = j} :
             LET reset == [dq EXCEPT
                             !.tasks = [id \in 1..Len(dq.tasks) |-> DownloadReset(dq.tasks[id])],
                             !.queue = @ \o [i \in 1..n |-> DownloadReset(dq.tasks[order[i]])],
                             !.attempts = [id \in 1..Len(dq.tasks) |->
                                             IF id \in failed THEN 0 ELSE dq.attempts[id]],
                             !.retries = @ + 1]
             IN  dq' = [reset EXCEPT !.file = HistoryJson(reset)]
    /\ UNCHANGED notDq

NextDownloadQueue ==
    \/ DqAddTask
    \/ \E w \in 1..max_concurrent : WorkerPop(w)
    \/ \E w \in 1..max_concurrent : WorkerInsert(w)
    \/ \E w \in 1..max_concurrent : WorkerDownload(w)
    \/ \E w \in 1..max_concurrent : WorkerRecord(w)
    \/ DqRetryFailed

SpecDownloadQueue == Init /\ [][NextDownloadQueue]_vars

\* ------------------------------------------------------------------ the mutexes of the DownloadQueue
\* The operations of the DownloadQueue called by two callers at any time, one
\* step for each `lock().await`; a guard is held to its drop or to the end of
\* the function.
DqOps == {"add_task", "get_status", "retry_failed", "clear_completed"}

\* The call of c is at this place.
DqAt(c, pc) == dq.calls[c].pc = pc

\* The call of c goes to this place; `changed` is the DownloadQueue as the step
\* leaves it.
DqGoto(changed, c, pc) ==
    [changed EXCEPT !.calls[c] = IF pc = "idle" THEN DqIdleCall
                                 ELSE [op |-> dq.calls[c].op, pc |-> pc]]

\* An operation is called.
DqCall(c) ==
    /\ DqAt(c, "idle")
    /\ \E op \in DqOps :
         /\ op = "add_task" =>
               Len(dq.tasks) + Cardinality({d \in Clients : DqAt(d, "add_task")})
                 < MaxDownloadTasks
         /\ op = "retry_failed" => dq.retries < MaxRetryCalls
         /\ dq' = [dq EXCEPT !.calls[c] = [op |-> op, pc |-> op]]
    /\ UNCHANGED notDq

\* add_task, under the history mutex: "already_downloaded" returned for a url
\* of completed_downloads, else the new task inserted in the history.
AddTaskInsert(c) ==
    /\ DqAt(c, "add_task") /\ DqFree("history")
    /\ \E url \in Urls :
         IF url \in dq.completed_downloads THEN dq' = DqGoto(dq, c, "idle")
         ELSE LET task == DownloadTaskNew(Len(dq.tasks) + 1, url)
              IN  dq' = DqGoto([dq EXCEPT !.tasks = Append(@, task),
                                          !.attempts = Append(@, 0)], c, "add_task_push")
    /\ UNCHANGED notDq

\* add_task, under the queue mutex: queue.push_back(task).
AddTaskPush(c) ==
    /\ DqAt(c, "add_task_push") /\ DqFree("queue")
    /\ dq' = DqGoto([dq EXCEPT !.queue = Append(@, dq.tasks[Len(dq.tasks)])], c, "save_history")
    /\ UNCHANGED notDq

\* save_history at the end of add_task, clear_completed and retry_failed, under
\* the history mutex; the operation returns.
DqSaveHistory(c) ==
    /\ DqAt(c, "save_history") /\ DqFree("history")
    /\ dq' = DqGoto([dq EXCEPT !.file = HistoryJson(dq)], c, "idle")
    /\ UNCHANGED notDq

\* get_status: `self.queue.lock().await`.
GetStatusLockQueue(c) ==
    /\ DqAt(c, "get_status") /\ DqFree("queue")
    /\ dq' = DqGoto([dq EXCEPT !.locks.queue = c], c, "get_status_active")
    /\ UNCHANGED notDq

\* get_status: `self.active_downloads.lock().await`, the queue guard held.
GetStatusLockActive(c) ==
    /\ DqAt(c, "get_status_active") /\ DqFree("active_downloads")
    /\ dq' = DqGoto([dq EXCEPT !.locks.active_downloads = c], c, "get_status_history")
    /\ UNCHANGED notDq

\* get_status: `self.history.lock().await`, both guards held; the three lists
\* are built and the guards dropped at the return.
GetStatusLockHistory(c) ==
    /\ DqAt(c, "get_status_history") /\ DqFree("history")
    /\ dq' = DqGoto([dq EXCEPT !.locks.queue = NoProc, !.locks.active_downloads = NoProc],
                    c, "idle")
    /\ UNCHANGED notDq

\* clear_completed, under the history mutex: the Completed tasks leave the
\* history.
ClearCompletedRetain(c) ==
    /\ DqAt(c, "clear_completed") /\ DqFree("history")
    /\ dq' = DqGoto([dq EXCEPT !.cleared =
                        @ \cup {id \in 1..Len(dq.tasks) : dq.tasks[id].status = "Completed"}],
                    c, "save_history")
    /\ UNCHANGED notDq

\* retry_failed: `self.history.lock().await`.
RetryFailedLockHistory(c) ==
    /\ DqAt(c, "retry_failed") /\ DqFree("history")
    /\ dq' = DqGoto([dq EXCEPT !.locks.history = c], c, "retry_failed_queue")
    /\ UNCHANGED notDq

\* retry_failed: `self.queue.lock().await`, the history guard held; the Failed
\* tasks are reset and pushed, and both guards dropped.
RetryFailedLockQueue(c) ==
    /\ DqAt(c, "retry_failed_queue") /\ DqFree("queue")
    /\ LET failed == {id \in (1..Len(dq.tasks)) \ dq.cleared : dq.tasks[id].status = "Failed"}
           n == Cardinality(failed)
       IN  \E order \in {o \in [1..n -> failed] : \A i, j \in 1..n : o[i] = o[j] => i = j} :
             dq' = DqGoto([dq EXCEPT
                             !.tasks = [id \in 1..Len(dq.tasks) |-> DownloadReset(dq.tasks[id])],
                             !.queue = @ \o [i \in 1..n |-> DownloadReset(dq.tasks[order[i]])],
                             !.attempts = [id \in 1..Len(dq.tasks) |->
                                             IF id \in failed THEN 0 ELSE dq.attempts[id]],
                             !.retries = @ + 1,
                             !.locks.history = NoProc],
                          c, "save_history")
    /\ UNCHANGED notDq

NextDqCalls ==
    \/ \E c \in Clients : DqCall(c)
    \/ \E c \in Clients : AddTaskInsert(c)
    \/ \E c \in Clients : AddTaskPush(c)
    \/ \E c \in Clients : DqSaveHistory(c)
    \/ \E c \in Clients : GetStatusLockQueue(c)
    \/ \E c \in Clients : GetStatusLockActive(c)
    \/ \E c \in Clients : GetStatusLockHistory(c)
    \/ \E c \in Clients : ClearCompletedRetain(c)
    \/ \E c \in Clients : RetryFailedLockHistory(c)
    \/ \E c \in Clients : RetryFailedLockQueue(c)
    \/ \E w \in 1..max_concurrent : WorkerPop(w)
    \/ \E w \in 1..max_concurrent : WorkerInsert(w)
    \/ \E w \in 1..max_concurrent : WorkerDownload(w)
    \/ \E w \in 1..max_concurrent : WorkerRecord(w)

SpecDqCalls == Init /\ [][NextDqCalls]_vars

\* ------------------------------------------------------------------ save / load round trip
\* Longest queue written and read back.
MaxLen == 2

SomeMetadata ==
    [title |-> None, artist |-> Some("artist"), playlist_name |-> Some("Clipboard Batch"),
     total_tracks |-> Some(2), track_index |-> None]

\* Queue items as update_item accepts them: any status, with or without a start
\* time, and the other optional fields either all unset or all set.
AnyItems(id) ==
    {[id |-> id, url |-> "song", item_type |-> "song_name", status |-> st,
      created_at |-> 5, started_at |-> sa, completed_at |-> None,
      error_message |-> None, retry_count |-> 0, metadata |-> None]
        : st \in QueueStatus, sa \in {None, Some(6)}}
    \cup
    {[id |-> id, url |-> "song", item_type |-> "spotify_track", status |-> st,
      created_at |-> 5, started_at |-> sa, completed_at |-> Some(7),
      error_message |-> Some(ErrNetwork), retry_count |-> 2,
      metadata |-> Some(SomeMetadata)]
        : st \in QueueStatus, sa \in {None, Some(6)}}

RECURSIVE AnyQueues(_)
AnyQueues(n) ==
    IF n = 0 THEN {<<>>}
    ELSE AnyQueues(n - 1) \cup
         {Append(q, it) : q \in {q \in AnyQueues(n - 1) : Len(q) = n - 1},
                          it \in AnyItems(n)}

\* A queue in any state, one operation having changed it and about to save.
InitRoundTrip ==
    /\ items \in AnyQueues(MaxLen)
    /\ file = NoFile
    /\ tmp = NoFile
    /\ saver = IdleSaver
    /\ api = [c \in Clients |-> IF c = Operator
                                  THEN ApiCall(IdleApi, "update_item", {}, None, 0)
                                  ELSE IdleApi]
    /\ tasks = EmptyBag
    /\ permits = Permits
    /\ nextId = MaxItems + 1
    /\ events = 0
    /\ acked = {}
    /\ removed = {}
    /\ invoked = {}
    /\ fileSrc = <<>>
    /\ panicked = FALSE /\ yt_dlp = NoDownloads /\ dq = DownloadQueueNew /\ song = SongIdle /\ llm = LlmIdle
    /\ coord = CoordStart
    /\ search = SearchIdle
    /\ analyzer = AnalysisIdle

NextRoundTrip ==
    \/ SaveBegin(Operator)
    \/ SaveWritePartial
    \/ SaveWriteDone
    \/ SaveRename
    \/ CrashRestart

SpecRoundTrip == InitRoundTrip /\ [][NextRoundTrip]_vars

\* ------------------------------------------------------------------ ExtractorBasedCoordinator
\* What QueryExtractor::process gives: the queries of the language model joined
\* by " | ", or a panic when the extractor call fails.
PlannerOutcomes == {<<"panic">>, <<>>, <<"">>, <<"song">>, <<"song", "">>, <<"song", "live">>}

\* query_iteration.query.split(" | ").map(trim).filter(not empty): joining and
\* splitting gives the queries back, the empty ones dropped (no query alone
\* joins to "", which splits to one empty string).
SplitQueries(out) == SelectSeq(out, LAMBDA q : q # "")

\* What the extractor call of ResultExtractor::analyze gives: an error, or a
\* selected_result_index (-1: none; MaxResults: past the end) and a confidence.
AnalysisOutcomes ==
    {[ok |-> FALSE, index |-> -1, confidence |-> 0]}
    \cup {[ok |-> TRUE, index |-> i, confidence |-> c] : i \in -1..MaxResults, c \in Confidences}

\* results[i] of a Vec: the element, or the panic of an index out of bounds.
VecIndex(v, i) ==
    IF i >= 0 /\ i < Len(v) THEN v[i + 1] ELSE [id |-> "panic", title |-> "index out of bounds"]

\* Faulty variant of Analyze: the index may be the length of the results.
AnalyzeUpToLen(results, out) ==
    [results |-> results,
     selected_result |-> IF out.index >= 0 /\ out.index <= Len(results)
                         THEN Some(VecIndex(results, out.index)) ELSE None,
     confidence |-> out.confidence]

\* ResultExtractor::analyze, after the extractor call: the result at the index
\* when the index is one of the results.
Analyze(results, out) ==
    [results |-> results,
     selected_result |-> IF out.index >= 0 /\ out.index < Len(results)
                         THEN Some(results[out.index + 1]) ELSE None,
     confidence |-> out.confidence]

\* Faulty variant of Accepts: a confidence of 0.5 is enough.
AcceptsAtThreshold(analysis, iteration) ==
    /\ IsSome(analysis.selected_result)
    /\ \/ analysis.confidence >= ConfidenceThreshold
       \/ iteration = max_iterations - 1

\* `if let Some(result) = &analysis.selected_result { if analysis.confidence >
\* 0.5 || iteration == self.max_iterations - 1 { return Ok(..) } }`.
Accepts(analysis, iteration) ==
    /\ IsSome(analysis.selected_result)
    /\ \/ analysis.confidence > ConfidenceThreshold
       \/ iteration = max_iterations - 1

\* Iterator::max_by over the iterations that selected a result, in order: of
\* several with the greatest confidence the last one is returned.
RECURSIVE MaxBy(_, _)
MaxBy(best, rest) ==
    IF rest = <<>> THEN best
    ELSE MaxBy(IF Head(rest).confidence >= best.confidence THEN Head(rest) ELSE best,
               Tail(rest))

\* After the loop: the best selection of all iterations, or the error.
Fallback(iterations) ==
    LET selections == SelectSeq(iterations, LAMBDA it : IsSome(it.selected_result))
    IN  IF selections = <<>>
        THEN Some([kind |-> "error", value |-> "No suitable match found"])
        ELSE Some([kind |-> "fallback",
                   value |-> MaxBy(Head(selections), Tail(selections)).selected_result[1]])

\* The end of one turn of the loop: the next iteration, or the code after the loop.
Advance(c) ==
    IF c.iteration + 1 < max_iterations
    THEN [c EXCEPT !.pc = "plan", !.iteration = @ + 1, !.queries = <<>>]
    ELSE [c EXCEPT !.pc = "done", !.iteration = @ + 1, !.queries = <<>>,
                   !.ret = Fallback(c.iterations)]

\* self.query_extractor.process(&context).await? and the split of its queries.
CoordPlan ==
    /\ coord.pc = "plan"
    /\ \E out \in PlannerOutcomes :
         IF out = <<"panic">>
         THEN coord' = [coord EXCEPT !.pc = "done",
                           !.ret = Some([kind |-> "panic", value |-> "Rig extractor failed"])]
         ELSE IF SplitQueries(out) = <<>>
         THEN coord' = [coord EXCEPT !.pc = "done",
                           !.ret = Some([kind |-> "error", value |-> "No queries generated"])]
         ELSE coord' = [coord EXCEPT !.pc = "search", !.queries = SplitQueries(out)]
    /\ UNCHANGED <<queueVars, search, analyzer>>

\* self.youtube_tool.search_multiple(queries).await? (it returns Ok always) and
\* the push of the iteration; without results the loop continues.
CoordSearch ==
    /\ coord.pc = "search"
    /\ \E n \in 0..MaxResults :
         LET pushed == [coord EXCEPT !.iterations =
                          Append(@, [results |-> Found(coord.iteration, n),
                                     selected_result |-> None, confidence |-> 0])]
         IN  coord' = IF n = 0 THEN Advance(pushed) ELSE [pushed EXCEPT !.pc = "analyze"]
    /\ UNCHANGED <<queueVars, search, analyzer>>

\* self.result_extractor.process(&context).await?, the update of the last
\* iteration and the test that returns the selection.
CoordAnalyze ==
    /\ coord.pc = "analyze"
    /\ \E out \in AnalysisOutcomes :
         LET last == coord.iterations[Len(coord.iterations)]
             analysis == Analyze(last.results, out)
             updated == [coord EXCEPT !.iterations[Len(coord.iterations)] = analysis]
         IN  IF ~out.ok \/ last.results = <<>>
             THEN coord' = [coord EXCEPT !.pc = "done",
                               !.ret = Some([kind |-> "error", value |-> "Result analysis error"])]
             ELSE IF Accepts(analysis, coord.iteration)
             THEN coord' = [updated EXCEPT !.pc = "done",
                               !.ret = Some([kind |-> "accepted",
                                             value |-> analysis.selected_result[1]])]
             ELSE coord' = Advance(updated)
    /\ UNCHANGED <<queueVars, search, analyzer>>

NextCoord ==
    \/ CoordPlan
    \/ CoordSearch
    \/ CoordAnalyze

SpecCoord == Init /\ [][NextCoord]_vars

\* ------------------------------------------------------------------ RigMusicSearchCoordinator
\* Greatest value given to with_max_iterations (a usize: 0 is one of them).
MaxConfigured == 2

\* How the crate is built: `usize - 1` below zero panics with overflow checks
\* (a debug build) and wraps without them (a release build).
Builds == {"debug", "release"}

\* search_for_song of a coordinator built by new(..).with_max_iterations(m).
RigStart(m) ==
    [pc |-> "rig_plan", iteration |-> 0, queries |-> <<>>, iterations |-> <<>>,
     ret |-> None, max_iterations |-> m]

\* What RigQueryGenerator::process gives: an error, or the queries of the
\* language model joined by " | ".
RigPlannerOutcomes ==
    {[ok |-> FALSE, queries |-> <<>>]}
    \cup {[ok |-> TRUE, queries |-> q] : q \in {<<>>, <<"">>, <<"song">>, <<"song", "live">>}}

\* After the loop `for iteration in 0..1`, which has one turn whatever
\* max_iterations is: the best selection of the iterations, or the error.
RigFallback(iterations) ==
    LET selections == SelectSeq(iterations, LAMBDA it : IsSome(it.selected_result))
    IN  IF selections = <<>>
        THEN Some([kind |-> "error", value |-> "Could not find suitable match"])
        ELSE Some([kind |-> "fallback",
                   value |-> MaxBy(Head(selections), Tail(selections)).selected_result[1]])

\* The end of the one turn of the loop.
RigAdvance(c) ==
    [c EXCEPT !.pc = "done", !.iteration = @ + 1, !.queries = <<>>,
              !.ret = RigFallback(c.iterations)]

\* self.query_generator.process(&context).await? and the split of its queries.
RigPlan ==
    /\ coord.pc = "rig_plan"
    /\ \E out \in RigPlannerOutcomes :
         IF ~out.ok
         THEN coord' = [coord EXCEPT !.pc = "done",
                           !.ret = Some([kind |-> "error", value |-> "Rig error"])]
         ELSE IF SplitQueries(out.queries) = <<>>
         THEN coord' = [coord EXCEPT !.pc = "done",
                           !.ret = Some([kind |-> "error", value |-> "No queries generated"])]
         ELSE coord' = [coord EXCEPT !.pc = "rig_search", !.queries = SplitQueries(out.queries)]
    /\ UNCHANGED <<queueVars, search, analyzer>>

\* self.youtube_tool.search_multiple(queries).await? and the push of the
\* iteration; without results the turn ends (`continue`).
RigSearch ==
    /\ coord.pc = "rig_search"
    /\ \E n \in 0..MaxResults :
         LET pushed == [coord EXCEPT !.iterations =
                          Append(@, [results |-> Found(coord.iteration, n),
                                     selected_result |-> None, confidence |-> 0])]
         IN  coord' = IF n = 0 THEN RigAdvance(pushed) ELSE [pushed EXCEPT !.pc = "rig_analyze"]
    /\ UNCHANGED <<queueVars, search, analyzer>>

\* self.result_analyzer.process(&context).await?, the update of the last
\* iteration and `analysis.confidence > 0.5 || iteration ==
\* self.max_iterations - 1`: the right side is evaluated when the confidence is
\* not above 0.5, and with max_iterations = 0 the subtraction overflows.
RigAnalyze ==
    /\ coord.pc = "rig_analyze"
    /\ \E out \in AnalysisOutcomes, build \in Builds :
         LET last == coord.iterations[Len(coord.iterations)]
             analysis == Analyze(last.results, out)
             updated == [coord EXCEPT !.iterations[Len(coord.iterations)] = analysis]
             confident == analysis.confidence > ConfidenceThreshold
             overflow == ~confident /\ coord.max_iterations = 0
         IN  IF ~out.ok
             THEN coord' = [coord EXCEPT !.pc = "done",
                               !.ret = Some([kind |-> "error", value |-> "Rig analysis error"])]
             ELSE IF ~IsSome(analysis.selected_result)
             THEN coord' = RigAdvance(updated)
             ELSE IF overflow /\ build = "debug"
             THEN coord' = [updated EXCEPT !.pc = "done",
                               !.ret = Some([kind |-> "panic",
                                             value |-> "attempt to subtract with overflow"])]
             ELSE IF confident \/ (~overflow /\ coord.iteration = coord.max_iterations - 1)
             THEN coord' = [updated EXCEPT !.pc = "done",
                               !.ret = Some([kind |-> "accepted",
                                             value |-> analysis.selected_result[1]])]
             ELSE coord' = RigAdvance(updated)
    /\ UNCHANGED <<queueVars, search, analyzer>>

NextRig ==
    \/ RigPlan
    \/ RigSearch
    \/ RigAnalyze

\* A search session of either coordinator: the one the program builds
\* (ExtractorBasedCoordinator::new) or a RigMusicSearchCoordinator with any
\* configured max_iterations.
InitSearchForSong ==
    \/ Init
    \/ /\ \E m \in 0..MaxConfigured : coord = RigStart(m)
       /\ items = <<>> /\ file = NoFile /\ tmp = NoFile /\ saver = IdleSaver
       /\ api = [c \in Clients |-> IdleApi] /\ tasks = EmptyBag /\ permits = Permits
       /\ nextId = 1 /\ events = 0 /\ acked = {} /\ removed = {} /\ invoked = {}
       /\ fileSrc = <<>> /\ panicked = FALSE /\ yt_dlp = NoDownloads /\ dq = DownloadQueueNew /\ song = SongIdle /\ llm = LlmIdle
       /\ search = SearchIdle /\ analyzer = AnalysisIdle

SpecSearchForSong == InitSearchForSong /\ [][NextCoord \/ NextRig]_vars

\* ------------------------------------------------------------------ GeminiDirectCoordinator
\* `if all_queries.len() > 10 { all_queries.truncate(10); }`.
QueryLimit == 10

\* The three approaches ("exact", "variations", "metadata") of search_for_song.
Approaches == 1..3

\* What one approach gives: the error of the API call or of the parse, or the
\* queries of the QueryList.
ApproachOutcomes ==
    {[ok |-> FALSE, queries |-> <<>>]}
    \cup {[ok |-> TRUE, queries |-> q] :
            q \in {<<>>, <<"song">>, <<"song", "live">>, <<"artist song">>}}

\* Most results the searches of one search_for_song call find.
MaxCandidates == 2

\* What analyze_results gets from the language model: the error of the API
\* call or of the parse, or a ResultAnalysis whose selected_result_index is -1,
\* one of the results, or past them.
GeminiOutcomes ==
    {[ok |-> FALSE, index |-> -1, confidence |-> 0]}
    \cup {[ok |-> TRUE, index |-> i, confidence |-> c] :
            i \in -1..MaxCandidates, c \in Confidences}

\* all_queries.extend(queries) for each approach that returned Ok, in the order
\* of the approaches (join_all).
RECURSIVE ExtendQueries(_)
ExtendQueries(outs) ==
    IF outs = <<>> THEN <<>>
    ELSE (IF Head(outs).ok THEN Head(outs).queries ELSE <<>>) \o ExtendQueries(Tail(outs))

\* Vec::dedup: of consecutive equal elements the first stays.
RECURSIVE VecDedup(_)
VecDedup(v) ==
    IF Len(v) <= 1 THEN v
    ELSE IF v[1] = v[2] THEN VecDedup(Tail(v))
    ELSE <<v[1]>> \o VecDedup(Tail(v))

\* Vec::truncate(n).
VecTruncate(v, n) == IF Len(v) > n THEN SubSeq(v, 1, n) ELSE v

\* search_for_song of GeminiDirectCoordinator is called.
GeminiStart ==
    [pc |-> "gemini_queries", iteration |-> 0, queries |-> <<>>, iterations |-> <<>>,
     ret |-> None]

\* The end of search_for_song: the selected result, or the error.
GeminiSelect(analysis) ==
    IF IsSome(analysis.selected_result)
    THEN Some([kind |-> "accepted", value |-> analysis.selected_result[1]])
    ELSE Some([kind |-> "error", value |-> "No suitable match found"])

\* The approaches run and their queries are gathered: the error when there is
\* none, else dedup and truncate.
GeminiQueries ==
    /\ coord.pc = "gemini_queries"
    /\ \E outs \in [Approaches -> ApproachOutcomes] :
         LET all_queries == ExtendQueries(outs)
         IN  IF all_queries = <<>>
             THEN coord' = [coord EXCEPT !.pc = "done",
                               !.ret = Some([kind |-> "error",
                                             value |-> "All query generation approaches failed"])]
             ELSE coord' = [coord EXCEPT !.pc = "gemini_search",
                               !.queries = VecTruncate(VecDedup(all_queries), QueryLimit)]
    /\ UNCHANGED <<queueVars, search, analyzer>>

\* self.youtube_tool.search_multiple(all_queries).await? (it returns Ok always):
\* the error without results.
GeminiSearch ==
    /\ coord.pc = "gemini_search"
    /\ \E n \in 0..MaxCandidates :
         IF n = 0
         THEN coord' = [coord EXCEPT !.pc = "done",
                           !.ret = Some([kind |-> "error", value |-> "No search results found"])]
         ELSE coord' = [coord EXCEPT !.pc = "gemini_analyze",
                           !.iterations = <<[results |-> Found(0, n),
                                             selected_result |-> None, confidence |-> 0]>>]
    /\ UNCHANGED <<queueVars, search, analyzer>>

\* self.analyze_results(song_query, &search_results).await? and the end of
\* search_for_song.
GeminiAnalyze ==
    /\ coord.pc = "gemini_analyze"
    /\ \E out \in GeminiOutcomes :
         IF ~out.ok
         THEN coord' = [coord EXCEPT !.pc = "done",
                           !.ret = Some([kind |-> "error", value |-> "Result analysis error"])]
         ELSE LET analysis == Analyze(coord.iterations[1].results, out)
              IN  coord' = [coord EXCEPT !.pc = "done", !.iterations = <<analysis>>,
                                         !.ret = GeminiSelect(analysis)]
    /\ UNCHANGED <<queueVars, search, analyzer>>

NextGemini ==
    \/ GeminiQueries
    \/ GeminiSearch
    \/ GeminiAnalyze

InitGemini ==
    /\ coord = GeminiStart
    /\ items = <<>> /\ file = NoFile /\ tmp = NoFile /\ saver = IdleSaver
    /\ api = [c \in Clients |-> IdleApi] /\ tasks = EmptyBag /\ permits = Permits
    /\ nextId = 1 /\ events = 0 /\ acked = {} /\ removed = {} /\ invoked = {}
    /\ fileSrc = <<>> /\ panicked = FALSE /\ yt_dlp = NoDownloads /\ dq = DownloadQueueNew /\ song = SongIdle /\ llm = LlmIdle
    /\ search = SearchIdle /\ analyzer = AnalysisIdle

SpecGemini == InitGemini /\ [][NextGemini]_vars

\* ------------------------------------------------------------------ YouTubeSearchTool
\* search_limit = (num_cpus::get() / 2).max(2): 2 on a machine of up to five cores.
SearchLimit == 2

\* Most queries given to one search_multiple call.
MaxQueries == 2

\* Most results one search finds.
MaxHits == 2

\* SearchResults of yt-dlp: the video id, and a title that tells apart two
\* results that carry the same id.
SearchResults ==
    {[id |-> "a", title |-> "first"], [id |-> "a", title |-> "second"],
     [id |-> "b", title |-> "first"]}

RECURSIVE ResultLists(_)
ResultLists(n) ==
    IF n = 0 THEN {<<>>}
    ELSE ResultLists(n - 1) \cup
         {Append(l, r) : l \in {l \in ResultLists(n - 1) : Len(l) = n - 1},
                         r \in SearchResults}

\* What search(&query) returns: the error that yt-dlp could not be run, that it
\* exited with a failure, or that a line of its output is not JSON; or the
\* results it printed.
SearchErrors ==
    {"Failed to run yt-dlp search", "yt-dlp search failed", "Failed to parse yt-dlp JSON"}

SearchOutcomes ==
    {[ok |-> FALSE, err |-> e, results |-> <<>>] : e \in SearchErrors}
    \cup {[ok |-> TRUE, err |-> "", results |-> l] : l \in ResultLists(MaxHits)}

\* Result::ok.
ResultOk(outcome) == IF outcome.ok THEN Some(outcome.results) ELSE None

\* A task as tokio::spawn made it: about to acquire a permit.
SearchTask == [pc |-> "acquire", outcome |-> None, result |-> None]

\* `for result in results { if let Ok(Some(search_results)) = result {
\* all_results.extend(search_results) } }`, in the order of the tasks.
RECURSIVE ExtendAll(_)
ExtendAll(ts) ==
    IF ts = <<>> THEN <<>>
    ELSE (IF IsSome(Head(ts).result) THEN Head(ts).result[1] ELSE <<>>)
         \o ExtendAll(Tail(ts))

\* Faulty variant of Dedup: only a result that follows one of the same id is
\* dropped.
RECURSIVE DedupAdjacent(_)
DedupAdjacent(list) ==
    IF Len(list) < 2 THEN list
    ELSE IF list[1].id = list[2].id
         THEN DedupAdjacent(<<list[1]>> \o SubSeq(list, 3, Len(list)))
         ELSE <<list[1]>> \o DedupAdjacent(Tail(list))

\* filter(|result| seen_ids.insert(result.id.clone())): HashSet::insert is true
\* for an id not seen before.
RECURSIVE DedupFrom(_, _)
DedupFrom(list, seen_ids) ==
    IF list = <<>> THEN <<>>
    ELSE IF Head(list).id \in seen_ids
         THEN DedupFrom(Tail(list), seen_ids)
         ELSE <<Head(list)>> \o DedupFrom(Tail(list), seen_ids \cup {Head(list).id})

Dedup(list) == DedupFrom(list, {})

\* search_multiple(queries): a limiter of its own, and one spawned task for
\* each query.
SearchSpawn ==
    /\ search.pc = "idle"
    /\ \E n \in 0..MaxQueries :
         search' = [pc |-> "joining", tasks |-> [i \in 1..n |-> SearchTask],
                    permits |-> SearchLimit, ret |-> None]
    /\ UNCHANGED <<queueVars, coord, analyzer>>

\* limiter_clone.acquire().await in a task (the semaphore is never closed, so
\* acquire gives a permit once one is free).
SearchAcquire(i) ==
    /\ search.pc = "joining" /\ search.tasks[i].pc = "acquire"
    /\ search.permits > 0
    /\ search' = [search EXCEPT !.tasks[i].pc = "searching", !.permits = @ - 1]
    /\ UNCHANGED <<queueVars, coord, analyzer>>

\* self_clone.search(&query).await.ok() in a task: the task ends and its permit
\* is dropped.
SearchEnd(i) ==
    /\ search.pc = "joining" /\ search.tasks[i].pc = "searching"
    /\ \E outcome \in SearchOutcomes :
         search' = [search EXCEPT !.tasks[i] = [pc |-> "ended", outcome |-> Some(outcome),
                                                result |-> ResultOk(outcome)],
                                  !.permits = @ + 1]
    /\ UNCHANGED <<queueVars, coord, analyzer>>

\* Faulty variant of SearchCollect: one failed search fails the call.
SearchCollectAllOrNothing ==
    /\ search.pc = "joining"
    /\ \A i \in 1..Len(search.tasks) : search.tasks[i].pc = "ended"
    /\ search' = [search EXCEPT !.pc = "done",
                    !.ret = IF \E i \in 1..Len(search.tasks) : ~IsSome(search.tasks[i].result)
                            THEN Some([ok |-> FALSE, results |-> <<>>])
                            ELSE Some([ok |-> TRUE, results |-> Dedup(ExtendAll(search.tasks))])]
    /\ UNCHANGED <<queueVars, coord, analyzer>>

\* join_all(tasks).await has every task's result, in the order of the queries;
\* they are merged, deduplicated and returned as Ok.
SearchCollect ==
    /\ search.pc = "joining"
    /\ \A i \in 1..Len(search.tasks) : search.tasks[i].pc = "ended"
    /\ search' = [search EXCEPT !.pc = "done",
                    !.ret = Some([ok |-> TRUE, results |-> Dedup(ExtendAll(search.tasks))])]
    /\ UNCHANGED <<queueVars, coord, analyzer>>

NextSearchMultiple ==
    \/ SearchSpawn
    \/ \E i \in 1..Len(search.tasks) : SearchAcquire(i)
    \/ \E i \in 1..Len(search.tasks) : SearchEnd(i)
    \/ SearchCollect

SpecSearchMultiple == Init /\ [][NextSearchMultiple]_vars

\* ------------------------------------------------------------------ search_multiple calls at the same time
\* Worker tasks of the queue processor that resolve a song at one time (the
\* processor's limiter admits as many as the machine has cores).
MaxSearchCalls == 2

\* Each of them calls search_multiple, all on clones of the one YouTubeSearchTool.
SearchCallers == 1..MaxSearchCalls

\* What a search returns here: a failure of yt-dlp, or one result.
ConcurrentOutcomes ==
    {o \in SearchOutcomes :
        \/ o.err = "yt-dlp search failed"
        \/ o.results = <<[id |-> "a", title |-> "first"]>>}

\* search_multiple(queries) of caller k: `SmartLimiter::with_limit(search_limit)`
\* makes the limiter of this call, and one task is spawned for each query.
CallSpawn(k) ==
    /\ search.calls[k].pc = "idle"
    /\ \E n \in 0..MaxQueries :
         search' = [search EXCEPT !.calls[k] =
                      [pc |-> "joining", tasks |-> [i \in 1..n |-> SearchTask],
                       permits |-> SearchLimit, ret |-> None]]
    /\ UNCHANGED <<queueVars, coord, analyzer>>

\* limiter_clone.acquire().await in a task of call k: a permit of the limiter
\* of that call.
CallAcquire(k, i) ==
    /\ search.calls[k].pc = "joining" /\ search.calls[k].tasks[i].pc = "acquire"
    /\ search.calls[k].permits > 0
    /\ search' = [search EXCEPT !.calls[k].tasks[i].pc = "searching",
                                !.calls[k].permits = @ - 1]
    /\ UNCHANGED <<queueVars, coord, analyzer>>

\* self_clone.search(&query).await.ok() in a task of call k.
CallEnd(k, i) ==
    /\ search.calls[k].pc = "joining" /\ search.calls[k].tasks[i].pc = "searching"
    /\ \E outcome \in ConcurrentOutcomes :
         search' = [search EXCEPT !.calls[k].tasks[i] =
                                     [pc |-> "ended", outcome |-> Some(outcome),
                                      result |-> ResultOk(outcome)],
                                  !.calls[k].permits = @ + 1]
    /\ UNCHANGED <<queueVars, coord, analyzer>>

\* join_all, merge, dedup and Ok of call k.
CallCollect(k) ==
    /\ search.calls[k].pc = "joining"
    /\ \A i \in 1..Len(search.calls[k].tasks) : search.calls[k].tasks[i].pc = "ended"
    /\ search' = [search EXCEPT !.calls[k].pc = "done",
                    !.calls[k].ret =
                       Some([ok |-> TRUE, results |-> Dedup(ExtendAll(search.calls[k].tasks))])]
    /\ UNCHANGED <<queueVars, coord, analyzer>>

\* The searches that run: tasks between acquire() and the end of search().
InFlight ==
    Cardinality({<<k, i>> \in SearchCallers \X (1..MaxQueries) :
                    /\ i <= Len(search.calls[k].tasks)
                    /\ search.calls[k].tasks[i].pc = "searching"})

InitSearchCalls ==
    /\ search = [pc |-> "calls", calls |-> [k \in SearchCallers |-> SearchIdle]]
    /\ items = <<>> /\ file = NoFile /\ tmp = NoFile /\ saver = IdleSaver
    /\ api = [c \in Clients |-> IdleApi] /\ tasks = EmptyBag /\ permits = Permits
    /\ nextId = 1 /\ events = 0 /\ acked = {} /\ removed = {} /\ invoked = {}
    /\ fileSrc = <<>> /\ panicked = FALSE /\ yt_dlp = NoDownloads /\ dq = DownloadQueueNew /\ song = SongIdle /\ llm = LlmIdle
    /\ coord = CoordStart /\ analyzer = AnalysisIdle

NextSearchCalls ==
    \/ \E k \in SearchCallers : CallSpawn(k)
    \/ \E k \in SearchCallers : \E i \in 1..Len(search.calls[k].tasks) : CallAcquire(k, i)
    \/ \E k \in SearchCallers : \E i \in 1..Len(search.calls[k].tasks) : CallEnd(k, i)
    \/ \E k \in SearchCallers : CallCollect(k)

SpecSearchCalls == InitSearchCalls /\ [][NextSearchCalls]_vars

\* ------------------------------------------------------------------ ResultExtractor
\* What the extractor call gives for these results: an error, or a
\* ResultAnalysis whose selected_result_index (an i32) is below zero, one of
\* the results, or past them.
ExtractorOutcomes(results) ==
    {[ok |-> FALSE, index |-> -1, confidence |-> 0]}
    \cup {[ok |-> TRUE, index |-> i, confidence |-> c] :
            i \in -2..(Len(results) + 1), c \in Confidences}

\* process(&context) is called with these results in the last iteration.
AnalyzerStart(results) ==
    [pc |-> "process", results |-> results, out |-> None, ret |-> None]

\* ResultExtractor::process: without results the error, else analyze(): the
\* extractor call, its error returned, or the SearchIteration with the selection.
AnalyzerProcess ==
    /\ analyzer.pc = "process"
    /\ IF analyzer.results = <<>>
       THEN analyzer' = [analyzer EXCEPT !.pc = "done",
                           !.ret = Some([kind |-> "error", value |-> "No results to analyze"])]
       ELSE \E out \in ExtractorOutcomes(analyzer.results) :
              analyzer' = [analyzer EXCEPT !.pc = "done", !.out = Some(out),
                             !.ret = IF out.ok
                                     THEN Some([kind |-> "ok",
                                                value |-> Analyze(analyzer.results, out)])
                                     ELSE Some([kind |-> "error",
                                                value |-> "Result analysis error"])]
    /\ UNCHANGED <<queueVars, coord, search>>

\* A call of process with any results of the last iteration.
InitAnalyzer ==
    /\ \E l \in ResultLists(MaxHits) : analyzer = AnalyzerStart(l)
    /\ items = <<>> /\ file = NoFile /\ tmp = NoFile /\ saver = IdleSaver
    /\ api = [c \in Clients |-> IdleApi] /\ tasks = EmptyBag /\ permits = Permits
    /\ nextId = 1 /\ events = 0 /\ acked = {} /\ removed = {} /\ invoked = {}
    /\ fileSrc = <<>> /\ panicked = FALSE /\ yt_dlp = NoDownloads /\ dq = DownloadQueueNew /\ song = SongIdle /\ llm = LlmIdle
    /\ coord = CoordStart /\ search = SearchIdle

NextAnalyzer == AnalyzerProcess

SpecAnalyzer == InitAnalyzer /\ [][NextAnalyzer]_vars

\* ------------------------------------------------------------------ the results shown to the analysis
\* ResultExtractor::analyze and GeminiDirectCoordinator::analyze_results put
\* `results.iter().take(10)` into the prompt.
PresentLimit == 10

\* Most results of one round: search_multiple gives up to ten for each query.
MaxFound == 11

\* Iterator::take.
Take(v, n) == SubSeq(v, 1, IF Len(v) < n THEN Len(v) ELSE n)

\* The results the prompt lists, numbered from 0.
Presented(results) == Take(results, PresentLimit)

\* process(&context) is called with the results of a round, few or many.
InitPresent ==
    /\ \E n \in 0..MaxFound : analyzer = AnalyzerStart(Found(0, n))
    /\ items = <<>> /\ file = NoFile /\ tmp = NoFile /\ saver = IdleSaver
    /\ api = [c \in Clients |-> IdleApi] /\ tasks = EmptyBag /\ permits = Permits
    /\ nextId = 1 /\ events = 0 /\ acked = {} /\ removed = {} /\ invoked = {}
    /\ fileSrc = <<>> /\ panicked = FALSE /\ yt_dlp = NoDownloads /\ dq = DownloadQueueNew /\ song = SongIdle
    /\ llm = LlmIdle /\ coord = CoordStart /\ search = SearchIdle

SpecPresent == InitPresent /\ [][NextAnalyzer]_vars

\* ------------------------------------------------------------------ the operations on any queue
\* Longest queue the operations are called on (but the queue of ScenarioD).
MaxOpsLen == 2

\* Calls one caller makes.
MaxCalls == 2

\* An item of the given id that QueueItem's methods brought to the status.
ItemIn(id, st) ==
    LET new == NewItem(id, "song", "song_name", Now)
        started == ItemStartProcessing(new, Now)
    IN  CASE st = "Pending" -> new
          [] st = "InProgress" -> started
          [] st = "Completed" -> ItemComplete(started, Now)
          [] st = "Failed" -> ItemFail(started, ErrNetwork, Now)
          [] st = "Skipped" -> ItemSkip(started, <<"Duplicate:">> \o ErrDuplicate, Now)

RECURSIVE StatusLists(_)
StatusLists(n) ==
    IF n = 0 THEN {<<>>}
    ELSE StatusLists(n - 1) \cup
         {Append(l, st) : l \in {l \in StatusLists(n - 1) : Len(l) = n - 1},
                          st \in QueueStatus}

\* A queue with two Failed and three Completed items.
ScenarioD == <<"Failed", "Completed", "Completed", "Failed", "Completed">>

\* The queues the operations are called on: items with ids 1, 2, .. in any status.
OpsQueues ==
    {[i \in 1..Len(sts) |-> ItemIn(i, sts[i])] : sts \in StatusLists(MaxOpsLen) \cup {ScenarioD}}

\* A queue at rest: its file holds the snapshot of its items.
InitOps ==
    /\ items \in OpsQueues
    /\ file = SnapshotJson(items)
    /\ fileSrc = items
    /\ tmp = NoFile
    /\ saver = IdleSaver
    /\ api = [c \in Clients |-> IdleApi]
    /\ tasks = EmptyBag
    /\ permits = Permits
    /\ nextId = Len(items) + 1
    /\ events = 0
    /\ acked = {}
    /\ removed = {}
    /\ invoked = {}
    /\ panicked = FALSE /\ yt_dlp = NoDownloads /\ dq = DownloadQueueNew /\ song = SongIdle /\ llm = LlmIdle
    /\ coord = CoordStart
    /\ search = SearchIdle
    /\ analyzer = AnalysisIdle

\* The items a caller may give to update_item: the next value of a queue item,
\* a queue item as it is, the item of its previous update_item call, the next
\* value of the item its dequeue returned, and an item that never was in the queue.
UpdateArgs(c) ==
    UNION {Updates(items[i]) : i \in 1..Len(items)}
    \cup {items[i] : i \in 1..Len(items)}
    \cup (IF IsSome(api[c].arg) THEN {api[c].arg[1]} ELSE {})
    \cup (IF IsSome(api[c].ret) /\ IsSome(api[c].ret[1].item)
          THEN Updates(api[c].ret[1].item[1]) ELSE {})
    \cup {ItemIn(0, "InProgress")}

\* One caller makes MaxCalls calls, of any operation but enqueue.
NextOps ==
    \/ (api[Operator].calls < MaxCalls /\ Dequeue(Operator))
    \/ (api[Operator].calls < MaxCalls
          /\ \E upd \in UpdateArgs(Operator) : UpdateItemWith(Operator, upd))
    \/ (api[Operator].calls < MaxCalls /\ ClearCompleted(Operator))
    \/ (api[Operator].calls < MaxCalls /\ RetryFailed(Operator))
    \/ SaveBegin(Operator)
    \/ SaveWritePartial
    \/ SaveWriteDone
    \/ SaveRename
    \/ SaveFail

SpecOps == InitOps /\ [][NextOps]_vars

\* Two callers make one update_item call each, at any time.
NextConcurrent ==
    \/ \E c \in Clients :
         /\ api[c].op = "none"
         /\ \E upd \in UpdateArgs(c) : UpdateItemWith(c, upd)
    \/ \E c \in Clients : SaveBegin(c)
    \/ SaveWritePartial
    \/ SaveWriteDone
    \/ SaveRename
    \/ SaveFail

SpecConcurrent == InitOps /\ [][NextConcurrent]_vars

\* ------------------------------------------------------------------ sanitizers of LLM responses
\* A &str is the sequence of its bytes. "é" is one char of two bytes, "C3" and
\* "A9"; every other byte here is a char of its own.
ContByte == "A9"
Accent == <<"C3", ContByte>>
Whitespace == {" ", "\n"}

\* str::is_char_boundary.
IsCharBoundary(s, i) == i = 0 \/ i = Len(s) \/ (i < Len(s) /\ s[i + 1] # ContByte)

\* str::trim_start, str::trim_end, str::trim.
RECURSIVE TrimStart(_)
TrimStart(s) == IF s # <<>> /\ Head(s) \in Whitespace THEN TrimStart(Tail(s)) ELSE s

RECURSIVE TrimEnd(_)
TrimEnd(s) ==
    IF s # <<>> /\ s[Len(s)] \in Whitespace THEN TrimEnd(SubSeq(s, 1, Len(s) - 1)) ELSE s

Trim(s) == TrimEnd(TrimStart(s))

\* str::starts_with, str::ends_with.
StartsWith(s, p) == Len(s) >= Len(p) /\ SubSeq(s, 1, Len(p)) = p
EndsWith(s, p) == Len(s) >= Len(p) /\ SubSeq(s, Len(s) - Len(p) + 1, Len(s)) = p

\* str::trim_start_matches, str::trim_end_matches: the pattern removed as often
\* as it is there.
RECURSIVE TrimStartMatches(_, _)
TrimStartMatches(s, p) ==
    IF StartsWith(s, p) THEN TrimStartMatches(SubSeq(s, Len(p) + 1, Len(s)), p) ELSE s

RECURSIVE TrimEndMatches(_, _)
TrimEndMatches(s, p) ==
    IF EndsWith(s, p) THEN TrimEndMatches(SubSeq(s, 1, Len(s) - Len(p)), p) ELSE s

\* str::find and str::rfind of a char of set B: the byte index, from 0.
FindByte(s, B) ==
    LET I == {i \in 1..Len(s) : s[i] \in B}
    IN  IF I = {} THEN None ELSE Some((CHOOSE i \in I : \A j \in I : i <= j) - 1)

RFindByte(s, B) ==
    LET I == {i \in 1..Len(s) : s[i] \in B}
    IN  IF I = {} THEN None ELSE Some((CHOOSE i \in I : \A j \in I : i >= j) - 1)

\* str::find of a pattern.
FindStr(s, p) ==
    LET I == {i \in 1..(Len(s) - Len(p) + 1) : SubSeq(s, i, i + Len(p) - 1) = p}
    IN  IF I = {} THEN None ELSE Some((CHOOSE i \in I : \A j \in I : i <= j) - 1)

\* str::replace(p, ""): the occurrences of p from the left, not overlapping.
RECURSIVE Remove(_, _)
Remove(s, p) ==
    IF s = <<>> THEN <<>>
    ELSE IF StartsWith(s, p) THEN Remove(SubSeq(s, Len(p) + 1, Len(s)), p)
    ELSE <<Head(s)>> \o Remove(Tail(s), p)

\* What a sanitizer gives: the String, or the panic of a slice.
Sanitized(s) == [kind |-> "ok", value |-> s]
SlicePanic == [kind |-> "panic", value |-> <<>>]

\* &s[a..b] (bytes a up to b, b left out): a panic when a > b, b > len or an
\* end is inside a char.
Slice(s, a, b) ==
    IF a <= b /\ b <= Len(s) /\ IsCharBoundary(s, a) /\ IsCharBoundary(s, b)
    THEN Sanitized(SubSeq(s, a + 1, b))
    ELSE SlicePanic

\* The byte 60 is the backtick.
Fence == <<"60", "60", "60">>
FenceJson == Fence \o <<"j", "s", "o", "n">>

\* llm_utils::sanitize_llm_json_response: trim, the fences off when the text
\* starts and ends with one, then from the first '[' to the last ']' when both
\* are there, else from the first '{' to the last '}', else the text.
SanitizeLlmJsonResponse(response) ==
    LET trimmed == Trim(response)
        output == IF StartsWith(trimmed, FenceJson) /\ EndsWith(trimmed, Fence)
                  THEN Trim(TrimEndMatches(TrimStartMatches(trimmed, FenceJson), Fence))
                  ELSE IF StartsWith(trimmed, Fence) /\ EndsWith(trimmed, Fence)
                  THEN Trim(TrimEndMatches(TrimStartMatches(trimmed, Fence), Fence))
                  ELSE trimmed
        astart == FindByte(output, {"["})
        aend == RFindByte(output, {"]"})
        ostart == FindByte(output, {"{"})
        oend == RFindByte(output, {"}"})
    IN  IF astart # None /\ aend # None THEN Slice(output, astart[1], aend[1] + 1)
        ELSE IF ostart # None /\ oend # None THEN Slice(output, ostart[1], oend[1] + 1)
        ELSE Sanitized(output)

\* The chars of a &str, each by its first byte.
Chars(s) == SelectSeq(s, LAMBDA b : b # ContByte)

\* The loop of sanitize_llm_output over json_part.chars().enumerate(), at the
\* i-th char (from 1) with this depth: i when the depth comes back to 0 there
\* (end_pos = i + 1 with i from 0), n when the chars end before.
RECURSIVE EndPos(_, _, _, _)
EndPos(cs, i, depth, n) ==
    IF i > Len(cs) THEN n
    ELSE IF cs[i] \in {"{", "["} THEN EndPos(cs, i + 1, depth + 1, n)
    ELSE IF cs[i] \in {"}", "]"}
         THEN IF depth - 1 = 0 THEN i ELSE EndPos(cs, i + 1, depth - 1, n)
    ELSE EndPos(cs, i + 1, depth, n)

ThinkOpen == <<"<", "t", "h", "i", "n", "k", ">", "\n">>
ThinkClose == <<"<", "/", "t", "h", "i", "n", "k", ">", "\n">>
Explanation ==
    <<"*", "*", "E", "x", "p", "l", "a", "n", "a", "t", "i", "o", "n", ":", "*", "*">>

\* MusicDownloader::sanitize_llm_output: from the first '{' or '[' the bytes
\* json_part[..end_pos], end_pos counted in chars; without a bracket the think
\* and fence markers removed and the text before "**Explanation:**", trimmed.
SanitizeLlmOutput(output) ==
    LET json_start == FindByte(output, {"{", "["})
    IN  IF json_start # None
        THEN LET json_part == SubSeq(output, json_start[1] + 1, Len(output))
                 end_pos == EndPos(Chars(json_part), 1, 0, Len(json_part))
             IN  Slice(json_part, 0, end_pos)
        ELSE LET o1 == Remove(Remove(output, ThinkOpen), ThinkClose)
                 o2 == Remove(Remove(o1, FenceJson \o <<"\n">>), Fence \o <<"\n">>)
                 explanation_start == FindStr(o2, Explanation)
             IN  IF explanation_start # None
                 THEN Sanitized(Trim(SubSeq(o2, 1, explanation_start[1])))
                 ELSE Sanitized(Trim(o2))

\* What comes before the JSON in a response: nothing, a thinking block, a
\* line of prose; then no fence, "```json" or "```".
Preambles ==
    {<<>>, ThinkOpen \o <<"x", "\n">> \o ThinkClose \o <<"\n">>, <<"x", ":", "\n">>}
Fences == {<<>>, FenceJson, Fence}

\* The JSON of a response: an array, an object, an object that contains an
\* array, an array that contains an object, an array of objects, an object
\* with a two-byte char before an array.
Jsons ==
    { <<"[", "x", "]">>, <<"{", "x", "}">>, <<"{", "[", "x", "]", "}">>,
      <<"[", "{", "x", "}", "]">>, <<"[", "{", "}", "{", "}", "]">>,
      <<"{">> \o Accent \o <<"[", "x", "]", "}">> }

\* What comes after the closing fence: nothing, or prose.
Trailers == {<<>>, <<"\n", "\n", "x", ".">>}

\* What is not the call of a sanitizer.
notLlm == <<items, file, tmp, saver, api, tasks, permits, nextId, events, acked, removed,
            invoked, fileSrc, panicked, yt_dlp, dq, coord, search, analyzer, song>>

\* A response is about to be sanitized.
InitSanitize ==
    /\ \E pre \in Preambles, fence \in Fences, json \in Jsons, post \in Trailers :
          llm = [pc |-> "call", pre |-> pre \o (IF fence = <<>> THEN <<>> ELSE fence \o <<"\n">>),
                 json |-> json,
                 post |-> (IF fence = <<>> THEN <<>> ELSE <<"\n">> \o Fence) \o post,
                 ret |-> None]
    /\ items = <<>> /\ file = NoFile /\ tmp = NoFile /\ saver = IdleSaver
    /\ api = [c \in Clients |-> IdleApi] /\ tasks = EmptyBag /\ permits = Permits
    /\ nextId = 1 /\ events = 0 /\ acked = {} /\ removed = {} /\ invoked = {}
    /\ fileSrc = <<>> /\ panicked = FALSE /\ yt_dlp = NoDownloads /\ dq = DownloadQueueNew /\ song = SongIdle
    /\ coord = CoordStart /\ search = SearchIdle /\ analyzer = AnalysisIdle

\* sanitize_llm_json_response(&response_text) (rig_agents.rs, main.rs:1460).
SanitizeJsonResponseCall ==
    /\ llm.pc = "call"
    /\ llm' = [llm EXCEPT !.pc = "sanitize_llm_json_response",
                 !.ret = Some(SanitizeLlmJsonResponse(llm.pre \o llm.json \o llm.post))]
    /\ UNCHANGED notLlm

\* self.sanitize_llm_output(&ollama_response.response) (main.rs:1308).
SanitizeOutputCall ==
    /\ llm.pc = "call"
    /\ llm' = [llm EXCEPT !.pc = "sanitize_llm_output",
                 !.ret = Some(SanitizeLlmOutput(llm.pre \o llm.json \o llm.post))]
    /\ UNCHANGED notLlm

NextSanitize == SanitizeJsonResponseCall \/ SanitizeOutputCall

SpecSanitize == InitSanitize /\ [][NextSanitize]_vars

\* ------------------------------------------------------------------ MusicDownloader, one item
\* SongMetadata, without the artist and the title: what FuzzyMatcher::song_exists
\* answers for them is in song.early and song.fallback.
SongMetadata(album, youtube_url) == [album |-> album, youtube_url |-> youtube_url]

\* The metadata extract_spotify_metadata_with_llm and
\* extract_soundcloud_metadata_with_llm return when the early check finds the song.
AlreadyDownloaded == SongMetadata(Some("Already Downloaded"), "")

\* What parse_metadata_response can give: the JSON is the LLM's.
ParsedMetadata ==
    {SongMetadata(None, "https://youtu.be/x"),
     SongMetadata(Some("Already Downloaded"), "https://youtu.be/x"),
     SongMetadata(Some("Already Downloaded"), "")}

\* One run of yt-dlp by download_and_tag_song: whether yt-dlp --version
\* succeeds, the exit status of the download, its stderr, and whether the mp3
\* is in the music folder afterwards.
YtDlpRuns ==
    {[available |-> FALSE, success |-> FALSE, stderr |-> <<>>, mp3 |-> FALSE],
     [available |-> TRUE, success |-> TRUE, stderr |-> <<>>, mp3 |-> TRUE],
     [available |-> TRUE, success |-> TRUE, stderr |-> <<>>, mp3 |-> FALSE]}
    \cup {[available |-> TRUE, success |-> FALSE, stderr |-> e, mp3 |-> FALSE] :
            e \in ErrorMessages}

DownloadOk == [ok |-> TRUE, err |-> <<>>]
\* Display of MusicDownloadError::Download.
DownloadError(msg) == [ok |-> FALSE, err |-> <<"Download", "error:">> \o msg]

\* Faulty variant of DownloadAndTagSong: a song found in the music folder is an
\* error.
DownloadAndTagSongExistsIsError(metadata, exists, run) ==
    IF metadata = AlreadyDownloaded \/ exists
    THEN [result |-> DownloadError(<<"File", "already", "exists">>),
          checked |-> metadata # AlreadyDownloaded, fetched |-> FALSE]
    ELSE [result |-> IF run.available /\ run.success /\ run.mp3 THEN DownloadOk
                     ELSE DownloadError(<<"yt-dlp", "failed:">> \o run.stderr),
          checked |-> TRUE, fetched |-> run.available]

\* download_and_tag_song: its result, whether the fallback check of the music
\* folder ran, and whether yt-dlp was run for the download. exists is the
\* answer of song_exists for the metadata's artist and title.
DownloadAndTagSong(metadata, exists, run) ==
    IF metadata.album = Some("Already Downloaded") /\ metadata.youtube_url = ""
    THEN [result |-> DownloadOk, checked |-> FALSE, fetched |-> FALSE]
    ELSE IF exists
    THEN [result |-> DownloadOk, checked |-> TRUE, fetched |-> FALSE]
    ELSE IF ~run.available
    THEN [result |-> DownloadError(<<"yt-dlp", "not", "found.">>),
          checked |-> TRUE, fetched |-> FALSE]
    ELSE IF ~run.success
    THEN [result |-> DownloadError(<<"yt-dlp", "failed:">> \o run.stderr),
          checked |-> TRUE, fetched |-> TRUE]
    ELSE IF ~run.mp3
    THEN [result |-> DownloadError(<<"Downloaded", "file", "not", "found">>),
          checked |-> TRUE, fetched |-> TRUE]
    ELSE [result |-> DownloadOk, checked |-> TRUE, fetched |-> TRUE]

\* What is not the item in process_item_async.
notSong == <<items, file, tmp, saver, api, tasks, permits, nextId, events, acked, removed,
             invoked, fileSrc, panicked, yt_dlp, dq, coord, search, analyzer, llm>>

\* A task of start_processing has marked its item InProgress and calls
\* process_item_async.
InitDownloader ==
    /\ \E t \in KnownItemTypes, parsed \in BOOLEAN, early \in BOOLEAN, fallback \in BOOLEAN :
          song = [pc |-> "start",
                  item |-> ItemStartProcessing(NewItem(1, "a", t, Now), Now),
                  parsed |-> parsed, early |-> early, fallback |-> fallback,
                  metadata |-> None, searches |-> 0, fetches |-> 0,
                  found |-> FALSE, result |-> None]
    /\ items = <<>> /\ file = NoFile /\ tmp = NoFile /\ saver = IdleSaver
    /\ api = [c \in Clients |-> IdleApi] /\ tasks = EmptyBag /\ permits = Permits
    /\ nextId = 1 /\ events = 0 /\ acked = {} /\ removed = {} /\ invoked = {}
    /\ fileSrc = <<>> /\ panicked = FALSE /\ yt_dlp = NoDownloads /\ dq = DownloadQueueNew
    /\ llm = LlmIdle /\ coord = CoordStart /\ search = SearchIdle /\ analyzer = AnalysisIdle

\* react_search_for_song and extract_metadata_from_search_result: an error, or
\* the metadata parsed from the LLM's answer.
SearchMetadata ==
    \/ \E e \in ErrorMessages :
          song' = [song EXCEPT !.pc = "result", !.searches = @ + 1,
                     !.result = Some([ok |-> FALSE, err |-> <<"LLM", "error:">> \o e])]
    \/ \E m \in ParsedMetadata :
          song' = [song EXCEPT !.pc = "metadata", !.searches = @ + 1, !.metadata = Some(m)]

\* process_spotify_url and process_soundcloud_url up to the metadata
\* (extract_spotify_metadata_with_llm, extract_soundcloud_metadata_with_llm):
\* the song info of the URL, the early check of the music folder, the search.
ExtractMetadataWithLlm ==
    /\ song.pc = "start"
    /\ song.item.item_type \in {"spotify_playlist", "spotify_track", "soundcloud_track"}
    /\ \/ \E e \in ErrorMessages :
             song' = [song EXCEPT !.pc = "result",
                        !.result = Some([ok |-> FALSE, err |-> <<"Network", "error:">> \o e])]
       \/ IF song.parsed /\ song.early
          THEN song' = [song EXCEPT !.pc = "metadata", !.found = TRUE,
                          !.metadata = Some(AlreadyDownloaded)]
          ELSE SearchMetadata
    /\ UNCHANGED notSong

\* process_song_name up to the metadata: is_music_related, then
\* get_song_metadata_from_llm.
ProcessSongName ==
    /\ song.pc = "start"
    /\ song.item.item_type \in {"youtube_url", "song_name"}
    /\ \/ \E e \in ErrorMessages :
             song' = [song EXCEPT !.pc = "result",
                        !.result = Some([ok |-> FALSE, err |-> <<"LLM", "error:">> \o e])]
       \/ song' = [song EXCEPT !.pc = "result", !.result = Some(DownloadOk)]
       \/ SearchMetadata
    /\ UNCHANGED notSong

\* self.download_and_tag_song(metadata).await?; Ok(())
DownloadAndTag ==
    /\ song.pc = "metadata"
    /\ \E run \in YtDlpRuns :
         LET d == DownloadAndTagSong(song.metadata[1], song.fallback, run)
         IN  song' = [song EXCEPT !.pc = "result", !.result = Some(d.result),
                        !.found = @ \/ (d.checked /\ song.fallback),
                        !.fetches = @ + (IF d.fetched THEN 1 ELSE 0)]
    /\ UNCHANGED notSong

\* start_processing, `match result` on what process_item_async returned.
MatchResult ==
    /\ song.pc = "result"
    /\ song' = [song EXCEPT !.pc = "done",
                  !.item = ApplyResult(song.item,
                                       ProcessItemAsync(song.item, song.result[1]), Now)]
    /\ UNCHANGED notSong

NextDownloader == ExtractMetadataWithLlm \/ ProcessSongName \/ DownloadAndTag \/ MatchResult

SpecDownloader == InitDownloader /\ [][NextDownloader]_vars

\* ------------------------------------------------------------------ PersistentQueue::new
\* An item an earlier run of the program stored: its id is none of this run's.
StoredItems ==
    {NewItem(MaxItems + 1, "song", "song_name", Now),
     ItemComplete(ItemStartProcessing(NewItem(MaxItems + 1, "song", "song_name", Now), Now), Now)}

\* A snapshot serde_json::from_str rejects though it holds items: the status
\* of its first item is no variant of QueueStatus.
Damaged(f) == [f EXCEPT !.items[1].status = JStr("Paused")]

\* The file at the queue path when the program starts: none, one cut short,
\* a snapshot, a damaged one.
StartFiles ==
    {NoFile, PartialFile}
    \cup {SnapshotJson(<<it>>) : it \in StoredItems}
    \cup {Damaged(SnapshotJson(<<it>>)) : it \in StoredItems}

\* The program starts: MusicDownloader::new is about to call
\* PersistentQueue::new.
InitNew ==
    /\ file \in StartFiles
    /\ items = <<>>
    /\ tmp = NoFile
    /\ saver = IdleSaver
    /\ api = [c \in Clients |-> IF c = Operator THEN [IdleApi EXCEPT !.pc = "new", !.op = "new"]
                                  ELSE IdleApi]
    /\ tasks = EmptyBag
    /\ permits = Permits
    /\ nextId = 1
    /\ events = 0
    /\ acked = {}
    /\ removed = {}
    /\ invoked = {}
    /\ fileSrc = <<>>
    /\ panicked = FALSE /\ yt_dlp = NoDownloads /\ dq = DownloadQueueNew /\ song = SongIdle
    /\ llm = LlmIdle /\ coord = CoordStart /\ search = SearchIdle /\ analyzer = AnalysisIdle

\* PersistentQueue::new: an empty queue, then load(). `if let Err(e) =
\* queue.load()` prints and goes on, and new returns Ok(queue). load() returns
\* Ok without a file, the error of fs::read_to_string (readable is FALSE) or of
\* serde_json::from_str, and panics in block_on for a file it has parsed.
New ==
    /\ api[Operator].pc = "new"
    /\ \E readable \in {r \in BOOLEAN : file.exists \/ r} :
         LET panics == readable /\ LoadPanics(file)
         IN  /\ panicked' = panics
             /\ api' = [api EXCEPT ![Operator] =
                          IF panics THEN @
                          ELSE [@ EXCEPT !.pc = "idle", !.calls = 1,
                                  !.ret = Some([ok |-> TRUE, count |-> 0, item |-> None])]]
    /\ items' = <<>>
    /\ UNCHANGED <<song, llm, dq, yt_dlp, search, analyzer, coord, file, tmp, saver, tasks,
                   permits, nextId, events, acked, removed, invoked, fileSrc>>

\* The program from its start, with one caller of the queue's operations and
\* saves that fail.
NextNew ==
    \/ New
    \/ Enqueue(Operator)
    \/ EnqueueMultiple(Operator)
    \/ (items # <<>> /\ Dequeue(Operator))
    \/ UpdateItemCall(Operator)
    \/ (SomeCompleted /\ ClearCompleted(Operator))
    \/ (SomeFailed /\ RetryFailed(Operator))
    \/ SaveBegin(Operator)
    \/ SaveWritePartial
    \/ SaveWriteDone
    \/ SaveRename
    \/ SaveFail

SpecNew == InitNew /\ [][NextNew]_vars

\* ------------------------------------------------------------------ properties
\* What load() is to give back for an item that save() wrote.
C1_Expected(it) ==
    IF it.status = "InProgress"
    THEN [it EXCEPT !.status = "Pending", !.started_at = None]
    ELSE it

\* C1: a queue written by save() and read back by load() at the next start has
\* the same items in the same order, every field unchanged, but that an
\* InProgress item comes back Pending with started_at unset.
C1_RoundTrip ==
    [][(events' > events /\ file.exists)
         => /\ ~panicked'
            /\ Len(items') = Len(fileSrc)
            /\ \A i \in 1..Len(fileSrc) : items'[i] = C1_Expected(fileSrc[i])]_vars

\* C2: an item whose enqueue or enqueue_multiple returned Ok is in the queue
\* file's snapshot and in the queue of a process that runs, also after a
\* restart, unless clear_completed or dequeue removed it.
C2_AckedSurvive ==
    \A id \in acked \ removed :
        /\ ~panicked
        /\ id \in IdsOf(items)
        /\ id \in IdsOf(LoadItems(file))

\* C3: the file at the queue path is absent or is the complete snapshot that
\* one earlier save() renamed there, at every step of every save() and with
\* several operations in save().
C3_FileAbsentOrComplete ==
    ~file.exists \/ (file.complete /\ file = SnapshotJson(fileSrc))

\* A task is in the middle of writing the temp file, the operator's call waits
\* for save_mutex, and the queue file holds an earlier snapshot.
C3_Witness ==
    /\ saver.holder = TaskProc /\ saver.pc = "writing" /\ tmp = PartialFile
    /\ api[Operator].pc = "save"
    /\ file.exists /\ file.items # SnapshotJson(items).items

\* C4: the tasks that hold a permit are never more than the permits of the
\* limiter, and the permits left are those of the one semaphore all clones share.
C4_PermitsBound ==
    /\ PermitHolders <= Permits
    /\ permits = Permits - PermitHolders

\* Every permit is held and another task waits in acquire().
C4_Witness ==
    /\ PermitHolders = Permits
    /\ \E r \in BagToSet(tasks) : r.pc = "acquire"

\* The item after the result, as the outcome of the collaborator demands.
C5_Outcome(before, after, result) ==
    /\ after.id = before.id
    /\ IsSome(after.completed_at)
    /\ IF result.ok
       THEN after.status = "Completed" /\ after.retry_count = before.retry_count
       ELSE IF \/ Contains(result.err, <<"already", "exists">>)
               \/ Contains(result.err, <<"duplicate">>)
       THEN /\ after.status = "Skipped" /\ IsSome(after.error_message)
            /\ after.retry_count = before.retry_count
       ELSE /\ after.status = "Failed" /\ IsSome(after.error_message)
            /\ after.retry_count = before.retry_count + 1

\* C5: when the collaborator returns, Ok makes the item Completed, an error
\* that contains "already exists" or "duplicate" makes it Skipped with the
\* error message set and retry_count as it was, any other error makes it
\* Failed with retry_count one more; completed_at is set in all three, and the
\* item is written to the queue.
C5_ResultHandling ==
    [][\A r \in BagToSet(tasks) :
         (r.pc = "running" /\ events' = events /\ CopiesIn(r, tasks') < CopiesIn(r, tasks))
           => \E a \in BagToSet(tasks') :
                /\ a.pc = "save2" /\ CopiesIn(a, tasks') > CopiesIn(a, tasks)
                /\ IsSome(a.result)
                /\ C5_Outcome(r.item, a.item, a.result[1])
                /\ Position(items, r.item.id) # 0
                     => items'[Position(items, r.item.id)] = a.item]_vars

\* A task whose collaborator answered with a duplicate error: its item is
\* Skipped in the queue.
C5_Witness ==
    \E r \in BagToSet(tasks) :
        /\ r.pc = "save2" /\ IsSome(r.result) /\ ~r.result[1].ok
        /\ r.item.status = "Skipped" /\ r.item.retry_count = 0
        /\ Position(items, r.item.id) # 0
        /\ items[Position(items, r.item.id)] = r.item

C7_FailedStays ==
    [][\A i \in 1..Len(items) :
         (IsFailed(items[i]) /\ events' = events)
           => (i <= Len(items') /\ IsFailed(items'[i]))]_vars

\* C8: between two resets of an item (retry_failed, or the reset of an
\* InProgress item at a restart) the processor calls the collaborator for it
\* once at most.
C8_InvokedOnce ==
    [][\A a \in BagToSet(tasks') :
         (a.pc = "running" /\ CopiesIn(a, tasks') > CopiesIn(a, tasks))
           => a.item.id \notin invoked]_vars

\* C9: the selection of a round is returned at once exactly when the analysis
\* selected a result and its confidence is above 0.5 or the round is the last
\* one allowed; otherwise the coordinator goes on (0.5 itself is not enough
\* before the last round and is enough in it, as is 0.3 in the last round).
C9_AcceptRule ==
    [][(coord.pc = "analyze"
        /\ Len(coord'.iterations) = Len(coord.iterations)
        /\ ~(coord'.pc = "done" /\ coord'.ret[1].kind = "error"
             /\ coord'.iterations = coord.iterations))
         => LET a == coord'.iterations[Len(coord'.iterations)]
                accepted == /\ coord'.pc = "done"
                            /\ coord'.ret[1].kind = "accepted"
                            /\ coord'.ret = Some([kind |-> "accepted",
                                                  value |-> a.selected_result[1]])
            IN  accepted <=> /\ IsSome(a.selected_result)
                             /\ \/ a.confidence > 5
                                \/ coord.iteration = max_iterations - 1]_vars

\* Two rounds without results, then a selection with confidence 0.3 in the
\* third round, which is returned.
C9_Witness ==
    /\ coord.pc = "done" /\ Len(coord.iterations) = 3
    /\ coord.iterations[1].results = <<>> /\ coord.iterations[2].results = <<>>
    /\ IsSome(coord.iterations[3].selected_result)
    /\ coord.iterations[3].confidence = 3
    /\ coord.ret = Some([kind |-> "accepted",
                         value |-> coord.iterations[3].selected_result[1]])

\* The rounds of the session that selected a result.
C10_Selecting ==
    {i \in 1..Len(coord.iterations) : IsSome(coord.iterations[i].selected_result)}

\* C10: when the loop ends without a selection returned, the coordinator
\* returns the selection of the earliest round among those of greatest
\* confidence, and the no-match error when no round selected anything.
C10_FallbackEarliestMax ==
    (coord.pc = "done" /\ coord.iteration = max_iterations
       /\ coord.ret[1].kind \in {"fallback", "error"}
       /\ ~(coord.ret[1].kind = "error" /\ coord.ret[1].value # "No suitable match found"))
      => IF C10_Selecting = {}
         THEN coord.ret = Some([kind |-> "error", value |-> "No suitable match found"])
         ELSE \E i \in C10_Selecting :
                /\ \A j \in C10_Selecting :
                     /\ coord.iterations[j].confidence <= coord.iterations[i].confidence
                     /\ coord.iterations[j].confidence = coord.iterations[i].confidence
                          => i <= j
                /\ coord.ret = Some([kind |-> "fallback",
                                     value |-> coord.iterations[i].selected_result[1]])

\* The rounds a session may record: the max_iterations its coordinator was
\* configured with.
C11_MaxIterations ==
    IF "max_iterations" \in DOMAIN coord THEN coord.max_iterations ELSE max_iterations

\* C11: search_for_song ends with a candidate or an error (no crash), and the
\* rounds recorded in the session are never more than max_iterations, whatever
\* max_iterations was configured.
C11_RoundsWithinMax ==
    /\ Len(coord.iterations) <= C11_MaxIterations
    /\ coord.pc = "done" => coord.ret[1].kind \in {"accepted", "fallback", "error"}

\* The results the searches of a finished search_multiple call found, those of
\* the first query first.
C12_Found ==
    LET Of(i) == IF search.tasks[i].outcome[1].ok
                 THEN search.tasks[i].outcome[1].results ELSE <<>>
        F[i \in 0..Len(search.tasks)] == IF i = 0 THEN <<>> ELSE F[i - 1] \o Of(i)
    IN  F[Len(search.tasks)]

\* The places in C12_Found of the results whose id no earlier result has.
C12_FirstSeen ==
    {k \in 1..Len(C12_Found) : \A j \in 1..(k - 1) : C12_Found[j].id # C12_Found[k].id}

\* C12: what search_multiple returns holds each id once at most, and holds the
\* first result of every id in the order in which the ids first occur when the
\* results of the queries are put one after the other in query order.
C12_DedupFirstSeen ==
    search.pc = "done" =>
        LET out == search.ret[1].results
        IN  /\ \A i, j \in 1..Len(out) : out[i].id = out[j].id => i = j
            /\ Len(out) = Cardinality(C12_FirstSeen)
            /\ \A i \in 1..Len(out) :
                 \E k \in C12_FirstSeen :
                    /\ Cardinality({j \in C12_FirstSeen : j <= k}) = i
                    /\ out[i] = C12_Found[k]

\* The first query found a then b, the second found another result of id a:
\* a (the first one) and b are returned.
C12_Witness ==
    /\ search.pc = "done" /\ Len(search.tasks) >= 2
    /\ search.tasks[1].result = Some(<<[id |-> "a", title |-> "first"],
                                       [id |-> "b", title |-> "first"]>>)
    /\ search.tasks[2].result = Some(<<[id |-> "a", title |-> "second"]>>)
    /\ search.ret[1].results = <<[id |-> "a", title |-> "first"],
                                 [id |-> "b", title |-> "first"]>>

\* C13: a query whose search fails gives no result and does not keep the
\* results of the other queries from being returned: the call returns Ok with
\* every id a successful search found and nothing else, and Ok with no result
\* when every search failed.
C13_FailuresSwallowed ==
    search.pc = "done" =>
        LET out == search.ret[1].results
            good == {i \in 1..Len(search.tasks) : search.tasks[i].outcome[1].ok}
        IN  /\ search.ret[1].ok
            /\ \A i \in good : \A k \in 1..Len(search.tasks[i].outcome[1].results) :
                 \E j \in 1..Len(out) : out[j].id = search.tasks[i].outcome[1].results[k].id
            /\ \A j \in 1..Len(out) :
                 \E i \in good : \E k \in 1..Len(search.tasks[i].outcome[1].results) :
                    out[j] = search.tasks[i].outcome[1].results[k]
            /\ good = {} => out = <<>>

\* One search failed, another found a result, and the call returned it.
C13_Witness ==
    /\ search.pc = "done" /\ Len(search.tasks) >= 2
    /\ ~search.tasks[1].outcome[1].ok
    /\ search.tasks[2].outcome[1].ok
    /\ search.ret[1].ok /\ search.ret[1].results # <<>>

\* C14: with results to analyze and whatever index the extractor gave (below
\* zero, one of the results, or the length of the results and more), the
\* analysis returns without a crash, and its selection is either none or the
\* result at that index, the index being from 0 to the length less one.
C14_IndexInBounds ==
    (analyzer.pc = "done" /\ analyzer.results # <<>> /\ IsSome(analyzer.out)
       /\ analyzer.out[1].ok)
      => LET idx == analyzer.out[1].index
             len == Len(analyzer.results)
         IN  /\ analyzer.ret[1].kind = "ok"
             /\ \/ analyzer.ret[1].value.selected_result = None
                \/ /\ 0 <= idx /\ idx <= len - 1
                   /\ analyzer.ret[1].value.selected_result = Some(analyzer.results[idx + 1])
             /\ (idx < 0 \/ idx >= len) => analyzer.ret[1].value.selected_result = None

\* The extractor gave the length of the results as the index: nothing is selected.
C14_Witness ==
    /\ analyzer.pc = "done" /\ Len(analyzer.results) = 2 /\ IsSome(analyzer.out)
    /\ analyzer.out[1].ok /\ analyzer.out[1].index = Len(analyzer.results)
    /\ analyzer.ret[1].kind = "ok" /\ analyzer.ret[1].value.selected_result = None

\* The step is the call of operation op by caller c.
C15_Calls(c, op) ==
    api[c].pc = "idle" /\ api'[c].calls = api[c].calls + 1 /\ api'[c].op = op

\* The step is the Ok return of operation op to caller c.
C15_ReturnsOk(c, op) ==
    /\ api[c].pc = "save" /\ api[c].op = op
    /\ api'[c].pc = "idle" /\ IsSome(api'[c].ret) /\ api'[c].ret[1].ok

C15_Failed == {i \in 1..Len(items) : items[i].status = "Failed"}

\* C15: retry_failed returns the number of the items that were Failed; each of
\* them is then Pending with started_at, completed_at and error_message unset
\* and retry_count (and all else) as before; the other items, the number of
\* items and their order do not change.
C15_RetryFailed ==
    [][\A c \in Clients :
         /\ C15_Calls(c, "retry_failed")
              => /\ Len(items') = Len(items)
                 /\ \A i \in 1..Len(items) :
                      IF i \in C15_Failed
                      THEN /\ items'[i].status = "Pending"
                           /\ items'[i].started_at = None
                           /\ items'[i].completed_at = None
                           /\ items'[i].error_message = None
                           /\ items'[i].retry_count = items[i].retry_count
                           /\ items'[i].id = items[i].id
                           /\ items'[i].url = items[i].url
                           /\ items'[i].item_type = items[i].item_type
                           /\ items'[i].created_at = items[i].created_at
                           /\ items'[i].metadata = items[i].metadata
                      ELSE items'[i] = items[i]
                 /\ api'[c].count = Cardinality(C15_Failed)
                 /\ C15_Failed = {}
                      => api'[c].ret = Some([ok |-> TRUE, count |-> 0, item |-> None])
         /\ C15_ReturnsOk(c, "retry_failed")
              => api'[c].ret[1].count = api[c].count /\ items' = items]_vars

\* retry_failed on two Failed and three Completed items has returned 2, the two
\* are Pending and have their retry_count of 1.
C15_Witness ==
    /\ api[Operator].pc = "idle" /\ api[Operator].op = "retry_failed"
    /\ api[Operator].ret = Some([ok |-> TRUE, count |-> 2, item |-> None])
    /\ Len(items) = 5
    /\ [i \in 1..5 |-> items[i].status]
         = <<"Pending", "Completed", "Completed", "Pending", "Completed">>
    /\ items[1].retry_count = 1 /\ items[4].retry_count = 1
    /\ items[1].error_message = None /\ items[1].completed_at = None

C16_Pending == {i \in 1..Len(items) : items[i].status = "Pending"}

\* C16: dequeue removes and returns the first item of the queue that is
\* Pending and leaves the others as they are; without a Pending item it
\* returns None and removes nothing.
C16_DequeueOldestPending ==
    [][\A c \in Clients :
         C15_Calls(c, "dequeue")
           => IF C16_Pending = {}
              THEN items' = items /\ api'[c].ret[1].item = None
              ELSE LET k == CHOOSE k \in C16_Pending : \A j \in C16_Pending : k <= j
                   IN  /\ api'[c].ret[1].item = Some(items[k])
                       /\ items' = SubSeq(items, 1, k - 1) \o SubSeq(items, k + 1, Len(items))]_vars

\* C17: update_item puts the given item in the place of the item of its id and
\* changes no other item, nor the number or the order of the items; when no
\* item has the id the items stay as they are and the call goes on to save()
\* and returns Ok when save() does.
C17_UpdateFrame ==
    [][\A c \in Clients :
         /\ C15_Calls(c, "update_item")
              => LET u == api'[c].arg[1]
                 IN  /\ Len(items') = Len(items)
                     /\ \A i \in 1..Len(items) :
                          items'[i] = IF items[i].id = u.id THEN u ELSE items[i]
                     /\ api'[c].pc = "save"
         /\ (api[c].op = "update_item" /\ saver.holder = c /\ saver'.holder = NoProc
               /\ events' = events)
              => /\ IsSome(api'[c].ret) /\ api'[c].ret[1].ok
                 /\ items' = items]_vars

\* update_item with an item whose id is not in the queue has returned Ok.
C17_Witness ==
    /\ api[Operator].pc = "idle" /\ api[Operator].op = "update_item"
    /\ IsSome(api[Operator].ret) /\ api[Operator].ret[1].ok
    /\ items # <<>> /\ api[Operator].arg[1].id \notin IdsOf(items)

\* C18: an update_item call that follows an update_item call with the same
\* item changes neither the items nor, when it has saved, the queue file.
C18_UpdateIdempotent ==
    [][\A c \in Clients :
         /\ (C15_Calls(c, "update_item") /\ api[c].op = "update_item"
               /\ IsSome(api[c].ret) /\ api[c].ret[1].ok /\ api'[c].arg = api[c].arg)
              => items' = items
         /\ (C15_ReturnsOk(c, "update_item") /\ IsSome(api[c].prev)
               /\ api[c].prev = api[c].arg)
              => items' = items /\ file' = file]_vars

\* The second of two update_item calls with the same item, of an id that is in
\* the queue, has returned Ok.
C18_Witness ==
    /\ api[Operator].pc = "idle" /\ api[Operator].op = "update_item"
    /\ IsSome(api[Operator].ret) /\ api[Operator].ret[1].ok
    /\ IsSome(api[Operator].prev) /\ api[Operator].prev = api[Operator].arg
    /\ \E i \in 1..Len(items) : items[i] = api[Operator].arg[1]
    /\ file = SnapshotJson(items)

C20_Returned(c) ==
    /\ api[c].pc = "idle" /\ api[c].op = "update_item"
    /\ IsSome(api[c].ret) /\ api[c].ret[1].ok

\* C20: a save() begins to write the temp file only when no other save() is
\* between its start and its rename; and when two update_item calls on
\* different items of the queue, made at any times, have both returned Ok, the
\* queue file has both items as they were given.
C20_SerializedSaves ==
    /\ [][\A c \in Clients :
            (saver'.holder = c /\ saver.holder # c) => saver.holder = NoProc]_vars
    /\ []((/\ C20_Returned(Operator) /\ C20_Returned(Other)
           /\ api[Operator].arg[1].id # api[Other].arg[1].id
           /\ {api[Operator].arg[1].id, api[Other].arg[1].id} \subseteq IdsOf(items))
            => \A c \in Clients :
                 \E i \in 1..Len(items) :
                    /\ items[i] = api[c].arg[1]
                    /\ i <= Len(file.items) /\ file.items[i] = ItemToJson(api[c].arg[1]))

\* One caller's save() is about to rename while the other caller, which has
\* updated another item, waits for save_mutex.
C20_Witness ==
    /\ saver.holder = Operator /\ saver.pc = "rename"
    /\ api[Other].pc = "save" /\ api[Other].op = "update_item"
    /\ api[Operator].op = "update_item"
    /\ api[Operator].arg[1].id # api[Other].arg[1].id
    /\ {api[Operator].arg[1].id, api[Other].arg[1].id} \subseteq IdsOf(items)
    /\ \A c \in Clients : \E i \in 1..Len(items) : items[i] = api[c].arg[1]
    /\ tmp = SnapshotJson(items) /\ file # tmp

\* The time stamps an item of its status has.
C21_Stamped(it) ==
    /\ it.status = "InProgress" => IsSome(it.started_at)
    /\ it.status \in {"Completed", "Failed", "Skipped"}
         => IsSome(it.completed_at) /\ IsSome(it.started_at)

\* C21: in the queue, and in the items load() builds from the queue file, an
\* InProgress item has started_at set and a Completed, Failed or Skipped item
\* has completed_at and started_at set; and an item becomes Failed in the queue
\* only by the update_item of a task that has marked its copy InProgress and
\* run it.
C21_StatusStamps ==
    /\ [](/\ \A i \in 1..Len(items) : C21_Stamped(items[i])
          /\ \A i \in 1..Len(LoadItems(file)) : C21_Stamped(LoadItems(file)[i]))
    /\ [][\A i \in 1..Len(items') :
            (items'[i].status = "Failed"
               /\ (i > Len(items) \/ items[i] # items'[i]))
              => \E r \in BagToSet(tasks) :
                    /\ r.pc = "running" /\ r.item.id = items'[i].id
                    /\ r.item.status = "InProgress" /\ IsSome(r.item.started_at)]_vars

\* An item that failed, was reset by retry_failed and failed again is Failed in
\* the queue, with both time stamps.
C21_Witness ==
    \E i \in 1..Len(items) :
       /\ items[i].status = "Failed" /\ items[i].retry_count = 2
       /\ IsSome(items[i].started_at) /\ IsSome(items[i].completed_at)

\* C22: no step of a queue operation removes an item that is Failed, and the
\* items clear_completed removes are Completed or Skipped.
C22_FailedNeverRemoved ==
    [][/\ \A i \in 1..Len(items) :
            items[i].status = "Failed" => items[i].id \in IdsOf(items')
       /\ \A c \in Clients :
            C15_Calls(c, "clear_completed")
              => \A i \in 1..Len(items) :
                    items[i].id \notin IdsOf(items')
                      => items[i].status \in {"Completed", "Skipped"}]_vars

\* C23: search_for_song of the multi-round coordinator ends without a result
\* only after its last round, when no round has a selection: a planner that
\* fails or gives no queries and an analysis that fails do not end it earlier.
C23_RoundFailuresRecovered ==
    (coord.pc = "done" /\ coord.ret[1].kind \notin {"accepted", "fallback"})
      => /\ coord.iteration = max_iterations
         /\ \A i \in 1..Len(coord.iterations) : coord.iterations[i].selected_result = None

\* C24: when the searches of the single-pass coordinator found results and the
\* analysis selected none of them (index below zero or past the results),
\* search_for_song returns the first result; "no match" is its error only
\* without results.
C24_FirstCandidateFallback ==
    (/\ coord.pc = "done" /\ Len(coord.iterations) = 1
     /\ coord.iterations[1].results # <<>>
     /\ coord.iterations[1].selected_result = None
     /\ coord.ret[1].value # "Result analysis error")
      => coord.ret = Some([kind |-> "accepted", value |-> coord.iterations[1].results[1]])

\* C25: a search_multiple call with queries whose every search could not be
\* started (yt-dlp could not be run) returns an error, and the call returns Ok
\* only when some search could be started.
C25_UnavailableIsError ==
    (search.pc = "done" /\ Len(search.tasks) >= 1)
      => (search.ret[1].ok
            <=> \E i \in 1..Len(search.tasks) :
                   search.tasks[i].outcome[1].err # "Failed to run yt-dlp search")

\* C26: the searches that run at one time, in all search_multiple calls under
\* way, are never more than search_limit = max(2, cores / 2).
C26_InFlightBound == InFlight <= SearchLimit

\* The tasks whose yt-dlp process was sent a kill by abort_all_downloads.
C27_Aborted ==
    {r \in BagToSet(tasks) :
        \/ r.pc = "downloading" /\ r.pid \in yt_dlp.killed
        \/ r.pc = "exited" /\ r.killed}

\* C27: abort_all_downloads sends a kill to every tracked process, empties
\* active_processes and changes no queue item; and the InProgress item of a
\* task whose download was aborted is InProgress after every step (there is no
\* load in these behaviours).
C27_AbortLeavesInProgress ==
    [][/\ (yt_dlp.active_processes # <<>> /\ yt_dlp'.active_processes = <<>>
             /\ yt_dlp'.killed # yt_dlp.killed)
            => /\ Elements(yt_dlp.active_processes) \subseteq yt_dlp'.killed
               /\ items' = items /\ file' = file
       /\ \A r \in C27_Aborted : \A i \in 1..Len(items) :
            (items[i].id = r.item.id /\ items[i].status = "InProgress")
              => (i <= Len(items') /\ items'[i].status = "InProgress")]_vars

\* Every copy of a task there is: in the queue, in the history, with a worker.
C28_Copies ==
    {dq.queue[i] : i \in 1..Len(dq.queue)} \cup {dq.tasks[i] : i \in 1..Len(dq.tasks)}
    \cup {dq.workers[w].task[1] : w \in {v \in 1..max_concurrent : dq.workers[v].pc # "idle"}}

C29_EmptyIsNoSelection ==
    (analyzer.pc = "done" /\ analyzer.results = <<>>)
      => /\ analyzer.ret[1].kind = "ok"
         /\ analyzer.ret[1].value.selected_result = None
         /\ analyzer.ret[1].value.confidence = 0

\* C30: the confidence of every recorded SearchIteration, and the confidence an
\* analysis returns to be compared with 0.5, is between 0.0 and 1.0 (0 and 10
\* tenths) whatever the extractor call reported.
C30_ConfidenceInRange ==
    \A i \in 1..Len(coord.iterations) :
        /\ coord.iterations[i].confidence >= 0
        /\ coord.iterations[i].confidence <= 10

\* C31: for a response that holds one JSON object or array after a thinking
\* block or prose, inside code fences or not, with or without trailing prose,
\* the sanitizer returns exactly that object or array: from its first bracket
\* to the bracket that closes it, an object that contains an array whole.
C31_ExtractsTheJson ==
    llm.pc \in {"sanitize_llm_json_response", "sanitize_llm_output"}
      => llm.ret = Some(Sanitized(llm.json))

\* C32: the result an analysis selects is one of the results listed in the
\* prompt, the first ten at most, also when the round found more than ten.
C32_SelectedWasPresented ==
    (analyzer.pc = "done" /\ analyzer.ret[1].kind = "ok"
       /\ IsSome(analyzer.ret[1].value.selected_result))
      => \E i \in 1..Len(Presented(analyzer.results)) :
            Presented(analyzer.results)[i] = analyzer.ret[1].value.selected_result[1]

\* The changes of status C33 allows.
C33_Allowed(a, b) ==
    \/ a = b
    \/ <<a, b>> \in {<<"Pending", "InProgress">>, <<"InProgress", "Completed">>,
                     <<"InProgress", "Failed">>, <<"InProgress", "Skipped">>,
                     <<"Failed", "Pending">>, <<"InProgress", "Pending">>}

\* C33: the status of an item of the queue changes only from Pending to
\* InProgress, from InProgress to Completed, Failed or Skipped, from Failed to
\* Pending and from InProgress to Pending; a Completed or Skipped item keeps
\* its status whatever the tasks of the processor do.
C33_StatusTransitions ==
    [][\A i \in 1..Len(items), j \in 1..Len(items') :
         items[i].id = items'[j].id
           => C33_Allowed(items[i].status, items'[j].status)]_vars

\* The item with this id has one of these statuses in the queue.
C34_Has(id, statuses) ==
    \E i \in 1..Len(items) : items[i].id = id /\ items[i].status \in statuses

\* C34: while the processor runs, with fair scheduling, every call of the
\* downloader returning and every write of the snapshot succeeding, an item
\* that is Pending or InProgress is Completed, Failed or Skipped later on.
C34_EveryItemEnds ==
    \A id \in ItemIds :
        C34_Has(id, {"Pending", "InProgress"})
          ~> C34_Has(id, {"Completed", "Failed", "Skipped"})

\* An item failed, was made Pending again by retry_failed, and has ended
\* again; no task is left.
C34_Witness ==
    /\ \E i \in 1..Len(items) :
          items[i].retry_count = 1 /\ items[i].status \in {"Completed", "Failed", "Skipped"}
    /\ tasks = EmptyBag /\ saver = IdleSaver /\ permits = Permits

\* A worker has this task: between its insert into active_downloads and its
\* remove from it.
C36_Working(id) ==
    \E w \in 1..max_concurrent :
        dq.workers[w].pc \in {"download", "record"} /\ dq.workers[w].task[1].id = id

\* C36: a task id is in active_downloads exactly while a worker has the task,
\* no task of the queue is in active_downloads, also after a failed task was
\* pushed to the queue for a retry, and active_downloads holds max_concurrent
\* (3) tasks at most.
C36_ActiveIsDownloading ==
    /\ \A id \in 1..Len(dq.tasks) : id \in dq.active_downloads <=> C36_Working(id)
    /\ \A i \in 1..Len(dq.queue) : dq.queue[i].id \notin dq.active_downloads
    /\ Cardinality(dq.active_downloads) <= max_concurrent

\* The mutex the call of c waits for, where it waits for one with a guard in
\* its hands.
C35_WaitsFor(c) ==
    IF DqAt(c, "get_status_active") THEN "active_downloads"
    ELSE IF DqAt(c, "get_status_history") THEN "history"
    ELSE IF DqAt(c, "retry_failed_queue") THEN "queue"
    ELSE "none"

\* C35: the calls of add_task, get_status, retry_failed and clear_completed
\* and the workers never deadlock: no two calls each wait for a mutex the
\* other holds, so every call that has started can return.
C35_NoDeadlock ==
    \A c, d \in Clients :
        ~(/\ c # d
          /\ C35_WaitsFor(c) # "none" /\ C35_WaitsFor(d) # "none"
          /\ dq.locks[C35_WaitsFor(c)] = d
          /\ dq.locks[C35_WaitsFor(d)] = c)

\* The save() of the enqueue, enqueue_multiple or update_item call of caller c
\* ends in this step with the error of fs::write or fs::rename.
C37_SaveFails(c) ==
    /\ saver.holder = c /\ saver'.holder = NoProc
    /\ events' = events + 1
    /\ api[c].op \in {"enqueue", "enqueue_multiple", "update_item"}
    /\ api'[c].op = api[c].op

C39_Mutated(a) ==
    /\ a.pc = "idle" /\ IsSome(a.ret) /\ a.ret[1].ok
    /\ \/ a.op \in {"enqueue", "enqueue_multiple", "update_item"}
       \/ a.op = "dequeue" /\ IsSome(a.ret[1].item)
       \/ a.op \in {"clear_completed", "retry_failed"} /\ a.ret[1].count > 0

\* C39: PersistentQueue::new returns no error; without a queue file, and with
\* one that cannot be read or parsed, the queue starts empty; and once a
\* mutating operation has succeeded, the file that could not be parsed has
\* been overwritten.
C39_StartsFreshAndOverwrites ==
    /\ api[Operator].op = "new" /\ api[Operator].pc = "idle"
         => api[Operator].ret[1].ok /\ items = <<>>
    /\ panicked => LoadPanics(file)
    /\ C39_Mutated(api[Operator]) => ~(file.exists /\ ~SnapshotParses(file))

====
